---- MODULE Spec2Model ----
(***************************************************************************)
(* Model of the generic entity service and repository of databricks_apps:  *)
(* approot/services/generic_service.py, approot/repositories/              *)
(* generic_repo.py and the connection pool interface of approot/db.py.     *)
(***************************************************************************)
EXTENDS Integers, Sequences, FiniteSets, TLC

(***************************************************************************)
(* Bounds of the model.                                                    *)
(***************************************************************************)
\* largest primary key the table's identity column hands out
MaxId == 2

(***************************************************************************)
(* Python values.  Every value is a record of the same shape so that two   *)
(* values of different Python types can be compared.                       *)
(***************************************************************************)
None == [t |-> "none", s |-> "", n |-> 0]
VStr(x) == [t |-> "str", s |-> x, n |-> 0]
VInt(k) == [t |-> "int", s |-> "", n |-> k]

\* dict.get(key) with the default None
Get(d, k) == IF k \in DOMAIN d THEN d[k] ELSE None

\* {k: v for k, v in d.items() if k in keys}
Restrict(d, keys) == [k \in (DOMAIN d) \cap keys |-> d[k]]

EmptyDict == [k \in {} |-> None]

\* d[key] = value on a dict
Put(d, key, v) == [k \in (DOMAIN d) \cup {key} |-> IF k = key THEN v ELSE d[k]]

(***************************************************************************)
(* Strings as character sequences, for the substring tests of the code.    *)
(***************************************************************************)
Chars(s) ==
  CASE s = "" -> <<>>
    [] s = "0" -> <<"0">>
    [] s = "1" -> <<"1">>
    [] s = "9" -> <<"9">>
    [] s = "Al" -> <<"A", "l">>
    [] s = "Bo" -> <<"B", "o">>
    [] s = "bad" -> <<"b", "a", "d">>
    [] s = "a@b.c" -> <<"a", "@", "b", ".", "c">>
    [] s = "a.b@c" -> <<"a", ".", "b", "@", "c">>
    [] s = "a@b.c@d" -> <<"a", "@", "b", ".", "c", "@", "d">>
    [] s = "a@b" -> <<"a", "@", "b">>
    [] s = "a@." -> <<"a", "@", ".">>
    [] s = ".@" -> <<".", "@">>
    [] s = "x" -> <<"x">>
    [] s = "o" -> <<"o">>
    [] s = "QueuePool limit" -> <<"Q", "u", "e", "u", "e", "P", "o", "o", "l", " ", "l", "i", "m", "i", "t">>
    [] s = "query timeout" -> <<"q", "u", "e", "r", "y", " ", "t", "i", "m", "e", "o", "u", "t">>
    [] s = "database unavailable" -> <<"d", "a", "t", "a", "b", "a", "s", "e", " ", "u", "n", "a", "v", "a", "i", "l", "a", "b", "l", "e">>
    [] s = "rollback failed" -> <<"r", "o", "l", "l", "b", "a", "c", "k", " ", "f", "a", "i", "l", "e", "d">>
    [] s = "boom" -> <<"b", "o", "o", "m">>
    [] s = "handler failed" -> <<"h", "a", "n", "d", "l", "e", "r", " ", "f", "a", "i", "l", "e", "d">>
    [] s = "Record not found" -> <<"R", "e", "c", "o", "r", "d", " ", "n", "o", "t", " ", "f", "o", "u", "n", "d">>
    [] s = "No fields to insert" -> <<"N", "o", " ", "f", "i", "e", "l", "d", "s", " ", "t", "o", " ", "i", "n", "s", "e", "r", "t">>
    [] s = "primary key could not be retrieved" -> <<"p", "r", "i", "m", "a", "r", "y", " ", "k", "e", "y", " ", "c", "o", "u", "l", "d", " ", "n", "o", "t", " ", "b", "e", " ", "r", "e", "t", "r", "i", "e", "v", "e", "d">>
    [] s = "QueuePool" -> <<"Q", "u", "e", "u", "e", "P", "o", "o", "l">>
    [] s = "timeout" -> <<"t", "i", "m", "e", "o", "u", "t">>
    [] s = "pool" -> <<"p", "o", "o", "l">>
    [] s = "@" -> <<"@">>
    [] s = "." -> <<".">>
    [] s = "id" -> <<"i", "d">>
    [] s = "name" -> <<"n", "a", "m", "e">>
    [] s = "email" -> <<"e", "m", "a", "i", "l">>
    [] s = "customers" -> <<"c", "u", "s", "t", "o", "m", "e", "r", "s">>
    [] s = "e-mail" -> <<"e", "-", "m", "a", "i", "l">>
    [] s = "unsafe identifier" -> <<"u", "n", "s", "a", "f", "e", " ", "i", "d", "e", "n", "t", "i", "f", "i", "e", "r">>
    [] s = "Unconsumed column names" -> <<"U", "n", "c", "o", "n", "s", "u", "m", "e", "d", " ", "c", "o", "l", "u", "m", "n", " ", "n", "a", "m", "e", "s">>

LowerChar(c) ==
  CASE c = "A" -> "a"
    [] c = "B" -> "b"
    [] c = "N" -> "n"
    [] c = "P" -> "p"
    [] c = "Q" -> "q"
    [] c = "R" -> "r"
    [] OTHER -> c

\* str.lower()
Lower(cs) == [i \in 1..Len(cs) |-> LowerChar(cs[i])]

\* needle in haystack, on character sequences
Contains(hay, needle) ==
  \E i \in 0..(Len(hay) - Len(needle)) :
     \A j \in 1..Len(needle) : hay[i + j] = needle[j]

\* s.split(sep)[-1] for a one-character separator: what follows the last sep
AfterLast(cs, sep) ==
  LET hits == {i \in 1..Len(cs) : cs[i] = sep}
      last == IF hits = {} THEN 0 ELSE CHOOSE i \in hits : \A j \in hits : j <= i
  IN  SubSeq(cs, last + 1, Len(cs))

\* int(value): the integer a value converts to, or the value itself when
\* int() raises ValueError / TypeError
IntOf(v) ==
  CASE v.t = "int" -> v
    [] v.t = "str" /\ v.s = "0" -> VInt(0)
    [] v.t = "str" /\ v.s = "1" -> VInt(1)
    [] v.t = "str" /\ v.s = "9" -> VInt(9)
    [] OTHER -> v

\* value in (None, "", 0)
InNoneEmptyZero(v) == v = None \/ v = VStr("") \/ v = VInt(0)

(***************************************************************************)
(* Entity registry (EntityConfig as produced by entities_loader).          *)
(***************************************************************************)
Customer ==
  [name |-> "customer", table |-> "customers", primary_key |-> "id",
   list |-> [columns |-> <<[name |-> "id"], [name |-> "name"], [name |-> "email"]>>,
             default_sort |-> "name", page_size |-> 2,
             actions |-> <<[name |-> "export_csv", label |-> "Export CSV"]>>],
   form |-> [sections |-> <<[fields |->
                <<[name |-> "name", label |-> "Name", type |-> "text", required |-> TRUE],
                  [name |-> "email", label |-> "Email", type |-> "email", required |-> TRUE]>>]>>,
             actions |-> <<[name |-> "calc_points", label |-> "Calc Points"]>>]]

\* an entity whose list shows a column ("email") that its form does not edit,
\* whose only form field is optional and whose list declares no page_size
Member ==
  [name |-> "member", table |-> "customers", primary_key |-> "id",
   list |-> [columns |-> <<[name |-> "id"], [name |-> "name"], [name |-> "email"]>>,
             default_sort |-> "name",
             actions |-> <<>>],
   form |-> [sections |-> <<[fields |->
                <<[name |-> "name", label |-> "Name", type |-> "text", required |-> FALSE]>>]>>,
             actions |-> <<[name |-> "calc_points", label |-> "Calc Points"]>>]]

\* an entity configured with a column name that is no SQL identifier: the
\* loader accepts any name
Legacy ==
  [name |-> "legacy", table |-> "customers", primary_key |-> "id",
   list |-> [columns |-> <<[name |-> "id"], [name |-> "e-mail"]>>,
             default_sort |-> "", page_size |-> 2,
             actions |-> <<>>],
   form |-> [sections |-> <<[fields |->
                <<[name |-> "e-mail", label |-> "E-mail", type |-> "text", required |-> FALSE]>>]>>,
             actions |-> <<>>]]

\* an entity whose form edits a column ("email") that its list does not
\* show, whose default_sort names no selected column, and which declares the
\* action calc_points both on the form and on the list
Contact ==
  [name |-> "contact", table |-> "customers", primary_key |-> "id",
   list |-> [columns |-> <<[name |-> "id"], [name |-> "name"]>>,
             default_sort |-> "email", page_size |-> 1,
             actions |-> <<[name |-> "calc_points", label |-> "Recalculate all"],
                           [name |-> "export_csv", label |-> "Export CSV"]>>],
   form |-> [sections |-> <<[fields |->
                <<[name |-> "name", label |-> "Name", type |-> "text", required |-> FALSE],
                  [name |-> "email", label |-> "Email", type |-> "email", required |-> FALSE]>>]>>,
             actions |-> <<[name |-> "calc_points", label |-> "Calc Points"]>>]]

Entities ==
  [n \in {"customer", "member", "legacy", "contact"} |->
     CASE n = "customer" -> Customer [] n = "member" -> Member
       [] n = "legacy" -> Legacy [] n = "contact" -> Contact]

\* names a request may carry; "ghost" is not registered
EntityNames == {"customer", "member", "legacy", "contact", "ghost"}

\* the columns of table customers besides the identity column id
TableCols == {"name", "email"}

SeqRange(q) == {q[i] : i \in 1..Len(q)}

\* every form field of every section, in declaration order
RECURSIVE FlattenFields(_)
FlattenFields(sections) ==
  IF sections = <<>> THEN <<>>
  ELSE Head(sections).fields \o FlattenFields(Tail(sections))

FormFields(entity) == FlattenFields(entity.form.sections)

(***************************************************************************)
(* Exceptions and results of repository calls.                             *)
(***************************************************************************)
NoExc == [cls |-> "", msg |-> ""]
Exc(c, m) == [cls |-> c, msg |-> m]

\* raised by QueuePool when no connection becomes free within pool_timeout
PoolTimeout == Exc("TimeoutError", "QueuePool limit")
RollbackExc == Exc("OperationalError", "rollback failed")
NotFoundExc == Exc("ValueError", "Record not found")
NoFieldsExc == Exc("ValueError", "No fields to insert")
NoPkExc == Exc("ValueError", "primary key could not be retrieved")

\* what a repository call returns: None, one record, or a list of records
RetNone == [isNone |-> TRUE, rec |-> EmptyDict, list |-> <<>>]
RetRec(d) == [isNone |-> FALSE, rec |-> d, list |-> <<>>]
RetList(l) == [isNone |-> FALSE, rec |-> EmptyDict, list |-> l]

Ev(o, c) == [op |-> o, conn |-> c]

(***************************************************************************)
(* generic_repo helpers.                                                   *)
(***************************************************************************)
\* primary key first, then the list columns, without duplicates
RECURSIVE DedupAppend(_, _)
DedupAppend(cols, names) ==
  IF names = <<>> THEN cols
  ELSE LET nm == Head(names).name
       IN DedupAppend(IF nm # "" /\ nm \notin SeqRange(cols) THEN Append(cols, nm) ELSE cols,
                      Tail(names))

_select_columns(entity) ==
  LET pk == entity.primary_key
      cols == DedupAppend(IF pk # "" THEN <<pk>> ELSE <<>>, entity.list.columns)
  IN IF cols # <<>> THEN cols ELSE <<IF pk # "" THEN pk ELSE "id">>

_allowed_fields(entity) ==
  LET pk == entity.primary_key
  IN (IF pk # "" THEN {pk} ELSE {})
       \cup {f.name : f \in {g \in SeqRange(FormFields(entity)) : g.name # ""}}
       \cup {c.name : c \in {d \in SeqRange(entity.list.columns) : d.name # ""}}

\* the character classes of _IDENTIFIER_RE = ^[A-Za-z_][A-Za-z0-9_]*$
IdentStart ==
  {"a", "b", "c", "d", "e", "f", "g", "h", "i", "j", "k", "l", "m", "n", "o", "p", "q",
   "r", "s", "t", "u", "v", "w", "x", "y", "z",
   "A", "B", "C", "D", "E", "F", "G", "H", "I", "J", "K", "L", "M", "N", "O", "P", "Q",
   "R", "S", "T", "U", "V", "W", "X", "Y", "Z", "_"}

IdentRest == IdentStart \cup {"0", "1", "2", "3", "4", "5", "6", "7", "8", "9"}

\* _IDENTIFIER_RE.match(name)
IdentifierMatch(name) ==
  LET cs == Chars(name)
  IN /\ Len(cs) >= 1
     /\ cs[1] \in IdentStart
     /\ \A i \in 2..Len(cs) : cs[i] \in IdentRest

\* _safe_identifier(name) returns name; it raises when the match fails
_safe_identifier(name) == IdentifierMatch(name)

UnsafeIdentifierExc == Exc("ValueError", "unsafe identifier")

\* insert(table).values(**fields) / update(table).values(**fields) compiled
\* against the reflected table: a key that is no column of the table raises
CompileExc == Exc("CompileError", "Unconsumed column names")

\* the rows a WHERE pk = value clause selects
MatchingIds(rows, pk) == {i \in DOMAIN rows : IntOf(pk) = VInt(i)}

\* a stored row as the dict a cursor returns for the given columns
RowDict(rows, i, columns, pk_name) ==
  [c \in SeqRange(columns) |-> IF c = pk_name THEN VInt(i) ELSE rows[i][c]]

\* the identifiers a SELECT of the repository passes through
\* _safe_identifier while the statement is built: the table name in
\* _get_table, then every selected column (and the primary key, which is one)
SelectIdentifiersSafe(entity, columns) ==
  /\ _safe_identifier(entity.table)
  /\ \A i \in 1..Len(columns) : _safe_identifier(columns[i])

\* the keys of a values(**fields) clause are columns of the reflected table
Compiles(fields) == DOMAIN fields \subseteq TableCols \cup {"id"}

\* db.get_connection: a pooled connection, or the pool's / driver's error
GetConnection(held, cap, connExc) ==
  IF connExc # NoExc THEN [raised |-> TRUE, exc |-> connExc]
  ELSE IF held >= cap THEN [raised |-> TRUE, exc |-> PoolTimeout]
  ELSE [raised |-> FALSE, exc |-> NoExc]

FetchDetail(entity, pk, rows, held, cap, connExc, execExc) ==
  LET columns == _select_columns(entity)
      pk_name == entity.primary_key
      c == held + 1
      conn == GetConnection(held, cap, connExc)
      hit == MatchingIds(rows, pk)
  IN IF ~SelectIdentifiersSafe(entity, columns) \/ ~_safe_identifier(pk_name)
       THEN [raised |-> TRUE, exc |-> UnsafeIdentifierExc, ret |-> RetNone, log |-> <<>>]
     ELSE IF conn.raised
       THEN [raised |-> TRUE, exc |-> conn.exc, ret |-> RetNone, log |-> <<>>]
     ELSE IF execExc # NoExc
       THEN [raised |-> TRUE, exc |-> execExc, ret |-> RetNone,
             log |-> <<Ev("acquire", c), Ev("execute", c), Ev("release", c)>>]
     ELSE [raised |-> FALSE, exc |-> NoExc,
           ret |-> IF hit = {} THEN RetNone
                   ELSE RetRec(RowDict(rows, CHOOSE i \in hit : TRUE, columns, pk_name)),
           log |-> <<Ev("acquire", c), Ev("execute", c), Ev("release", c)>>]

(***************************************************************************)
(* Faults of the environment during one repository call: the step that     *)
(* fails (at), the exception it raises (exc), and whether rollback on the  *)
(* connection raises as well (rb).                                         *)
(***************************************************************************)
NoFault == [at |-> "none", exc |-> NoExc, rb |-> FALSE]

FaultAt(F, point) == IF F.at = point THEN F.exc ELSE NoExc

\* result of a repository call: raised/exc or the returned value, the table
\* and identity counter it leaves behind, and the calls it made on connections
Result(raised, exc, ret, rows, nextId, log) ==
  [raised |-> raised, exc |-> exc, ret |-> ret, rows |-> rows, nextId |-> nextId, log |-> log]

\* Caught without the finally clause: the connection is released only on the
\* normal return path
Caught_NoFinally(exc, rows, nextId, log, F) ==
  [raised |-> TRUE, exc |-> exc, ret |-> RetNone, rows |-> rows, nextId |-> nextId,
   log |-> log \o <<[op |-> "rollback", conn |-> 1]>>]

\* save's "except Exception: rollback (failure only logged); raise" followed
\* by "finally: release_connection(conn)"
Caught(exc, rows, nextId, log, F) ==
  Result(TRUE, exc, RetNone, rows, nextId,
         log \o <<Ev("rollback", 1)>>
             \o (IF F.rb THEN <<Ev("rollback failed", 1)>> ELSE <<>>)
             \o <<Ev("release", 1)>>)

\* a normal return from inside save's try block: only the finally clause runs
Returned(ret, rows, nextId, log) ==
  Result(FALSE, NoExc, ret, rows, nextId, log \o <<Ev("release", 1)>>)

\* UPDATE ... SET fields on one stored row
ApplyUpdate(row, fields) == [c \in DOMAIN row |-> IF c \in DOMAIN fields THEN fields[c] ELSE row[c]]

\* re-read of the row by save: fetch_detail called while conn is still held
SaveReread(entity, pk_value, rows, cap, F) ==
  FetchDetail(entity, pk_value, rows, 1, cap, NoExc, FaultAt(F, "reread"))

\* the UPDATE path of save (is_update holds), after conn was acquired
SaveUpdate(entity, filtered_payload, rows, nextId, cap, auto, F) ==
  LET pk_name == entity.primary_key
      pk_value == filtered_payload[pk_name]
      fields_to_update == Restrict(filtered_payload, (DOMAIN filtered_payload) \ {pk_name})
      acq == <<Ev("acquire", 1)>>
      hit == MatchingIds(rows, pk_value)
      updated == [i \in DOMAIN rows |->
                    IF i \in hit THEN ApplyUpdate(rows[i], fields_to_update) ELSE rows[i]]
      \* with autocommit the statement takes effect when it executes
      afterExec == IF auto THEN updated ELSE rows
      exec == acq \o <<Ev("execute", 1)>>
  IN IF DOMAIN fields_to_update = {}
       THEN LET d == SaveReread(entity, pk_value, rows, cap, F)
            IN IF d.raised THEN Caught(d.exc, rows, nextId, acq \o d.log, F)
               ELSE Returned(d.ret, rows, nextId, acq \o d.log)
     ELSE IF ~_safe_identifier(pk_name) THEN Caught(UnsafeIdentifierExc, rows, nextId, acq, F)
     ELSE IF ~Compiles(fields_to_update) THEN Caught(CompileExc, rows, nextId, acq, F)
     ELSE IF F.at = "execute" THEN Caught(F.exc, rows, nextId, exec, F)
     ELSE IF hit = {} THEN Caught(NotFoundExc, rows, nextId, exec, F)
     ELSE IF F.at = "commit"
       THEN Caught(F.exc, afterExec, nextId, exec \o <<Ev("commit failed", 1)>>, F)
     ELSE LET d == SaveReread(entity, pk_value, updated, cap, F)
              log == exec \o <<Ev("commit", 1)>> \o d.log
          IN IF d.raised THEN Caught(d.exc, updated, nextId, log, F)
             ELSE Returned(d.ret, updated, nextId, log)

\* _fetch_inserted_pk: the generated key, or None when neither lastrowid nor
\* a fallback query yields one
_fetch_inserted_pk(nextId, F) == IF F.at = "nopk" THEN None ELSE VInt(nextId)

\* the INSERT path of save, after conn was acquired
SaveInsert(entity, filtered_payload, rows, nextId, cap, auto, F) ==
  LET pk_name == entity.primary_key
      fields == Restrict(filtered_payload,
                  {k \in DOMAIN filtered_payload :
                      k # pk_name \/ ~InNoneEmptyZero(filtered_payload[k])})
      acq == <<Ev("acquire", 1)>>
      exec == acq \o <<Ev("execute", 1)>>
      newRow == [c \in TableCols |-> Get(fields, c)]
      inserted == [i \in (DOMAIN rows) \cup {nextId} |-> IF i = nextId THEN newRow ELSE rows[i]]
      afterExec == IF auto THEN inserted ELSE rows
      idAfterExec == IF auto THEN nextId + 1 ELSE nextId
      pk_value == _fetch_inserted_pk(nextId, F)
  IN IF DOMAIN fields = {} THEN Caught(NoFieldsExc, rows, nextId, acq, F)
     ELSE IF ~Compiles(fields) THEN Caught(CompileExc, rows, nextId, acq, F)
     ELSE IF F.at = "execute" THEN Caught(F.exc, rows, nextId, exec, F)
     ELSE IF pk_value = None
       THEN \* conn.rollback() before the raise; its own failure propagates
            Caught(IF F.rb THEN RollbackExc ELSE NoPkExc, afterExec, idAfterExec,
                   exec \o <<Ev("rollback", 1)>>, F)
     ELSE IF F.at = "commit"
       THEN Caught(F.exc, afterExec, idAfterExec, exec \o <<Ev("commit failed", 1)>>, F)
     ELSE Returned(RetRec(Put(filtered_payload, pk_name, pk_value)), inserted, nextId + 1,
                   exec \o <<Ev("commit", 1)>>)

\* save's INSERT / UPDATE decision on its filtered payload
RepoIsUpdate(entity, filtered_payload) ==
  /\ entity.primary_key \in DOMAIN filtered_payload
  /\ ~InNoneEmptyZero(Get(filtered_payload, entity.primary_key))

\* generic_repo.save
Save(entity, payload, rows, nextId, cap, auto, F) ==
  LET pk_name == entity.primary_key
      allowed_fields == _allowed_fields(entity)
      filtered_payload == Restrict(payload, allowed_fields)
      is_update == RepoIsUpdate(entity, filtered_payload)
      conn == GetConnection(0, cap, FaultAt(F, "conn"))
  IN IF ~_safe_identifier(entity.table)
       THEN Result(TRUE, UnsafeIdentifierExc, RetNone, rows, nextId, <<>>)
     ELSE IF conn.raised THEN Result(TRUE, conn.exc, RetNone, rows, nextId, <<>>)
     ELSE IF is_update THEN SaveUpdate(entity, filtered_payload, rows, nextId, cap, auto, F)
     ELSE SaveInsert(entity, filtered_payload, rows, nextId, cap, auto, F)

(***************************************************************************)
(* fetch_list and search_lookup.                                           *)
(***************************************************************************)
\* sort arguments a request may carry ("" stands for an absent sort)
SortArgs == {"", "name", "-name", "-bogus"}

StartsWithDash(s) == s \in {"-name", "-bogus"}

\* col[1:] for a sort argument with a leading "-"
DropDash(s) == CASE s = "-name" -> "name" [] s = "-bogus" -> "bogus" [] OTHER -> s

\* _resolve_sort whose fallback keeps the direction of the rejected sort
_resolve_sort_KeepDirection(sort, columns, default_sort) ==
  LET col0 == IF sort # "" THEN sort ELSE default_sort
      desc == col0 # "" /\ StartsWithDash(col0)
      col1 == IF desc THEN DropDash(col0) ELSE col0
      fallback == IF default_sort \in SeqRange(columns) THEN default_sort
                  ELSE IF columns # <<>> THEN columns[1] ELSE ""
  IN IF col0 = "" THEN [col |-> "", dir |-> "ASC"]
     ELSE [col |-> IF col1 \notin SeqRange(columns) THEN fallback ELSE col1,
           dir |-> IF desc THEN "DESC" ELSE "ASC"]

_resolve_sort(sort, columns, default_sort) ==
  LET col0 == IF sort # "" THEN sort ELSE default_sort
      desc == col0 # "" /\ StartsWithDash(col0)
      col1 == IF desc THEN DropDash(col0) ELSE col0
      fallback == IF default_sort \in SeqRange(columns) THEN default_sort
                  ELSE IF columns # <<>> THEN columns[1] ELSE ""
  IN IF col0 = "" THEN [col |-> "", dir |-> "ASC"]
     ELSE IF col1 \notin SeqRange(columns) THEN [col |-> fallback, dir |-> "ASC"]
     ELSE [col |-> col1, dir |-> IF desc THEN "DESC" ELSE "ASC"]

\* collation rank of a stored value (NULL sorts first)
SortKey(v) ==
  CASE v.t = "none" -> 0
    [] v.t = "int" -> v.n
    [] v.s = "" -> 1
    [] v.s = "Al" -> 2
    [] v.s = "Bo" -> 3
    [] v.s = "a@b.c" -> 4
    [] v.s = "bad" -> 5
    [] OTHER -> 6

ColumnOf(rows, i, col, pk_name) == IF col = pk_name THEN VInt(i) ELSE rows[i][col]

\* the ids of S in ORDER BY col dir order (ties in storage order)
RECURSIVE OrderIds(_, _, _, _, _)
OrderIds(S, rows, col, dir, pk_name) ==
  IF S = {} THEN <<>>
  ELSE LET key(i) == IF col = "" THEN 0 ELSE SortKey(ColumnOf(rows, i, col, pk_name))
           before(i, j) == IF key(i) = key(j) THEN i <= j
                           ELSE IF dir = "DESC" THEN key(i) > key(j) ELSE key(i) < key(j)
           first == CHOOSE i \in S : \A j \in S : before(i, j)
       IN <<first>> \o OrderIds(S \ {first}, rows, col, dir, pk_name)

\* LIMIT n OFFSET k on a result sequence
Slice(q, limit, offset) ==
  LET \* a backend that accepts a negative OFFSET skips nothing, and one that
      \* accepts a negative LIMIT does not limit (SQLite); a backend that
      \* rejects them is a fault at execute
      skip == IF offset < 0 THEN 0 ELSE offset
      last == IF limit < 0 \/ skip + limit >= Len(q) THEN Len(q) ELSE skip + limit
  IN SubSeq(q, skip + 1, last)

\* cfg.get("page_size", 20): the default when list.page_size is absent
DefaultPageSize == 20

ListPageSize(cfg) == IF "page_size" \in DOMAIN cfg THEN cfg.page_size ELSE DefaultPageSize

\* ListQuery with the offset computed as page * effective_page_size
ListQuery_PageTimesSize(entity, page, page_size, sort) ==
  LET page1 == IF page = None \/ page.n < 1 THEN 1 ELSE page.n
      cfg == entity.list
      effective_page_size == IF page_size = None \/ page_size.n = 0 THEN ListPageSize(cfg)
                             ELSE page_size.n
      srt == _resolve_sort(sort, _select_columns(entity), cfg.default_sort)
  IN [limit |-> effective_page_size, offset |-> page1 * effective_page_size,
      col |-> srt.col, dir |-> srt.dir]

\* the SELECT fetch_list builds: ORDER BY col dir LIMIT limit OFFSET offset.
\* page and page_size are Python values: None or an integer
ListQuery(entity, page, page_size, sort) ==
  LET page1 == IF page = None \/ page.n < 1 THEN 1 ELSE page.n
      cfg == entity.list
      effective_page_size == IF page_size = None \/ page_size.n = 0 THEN ListPageSize(cfg)
                             ELSE page_size.n
      srt == _resolve_sort(sort, _select_columns(entity), cfg.default_sort)
  IN [limit |-> effective_page_size, offset |-> (page1 - 1) * effective_page_size,
      col |-> srt.col, dir |-> srt.dir]

FetchList(entity, page, page_size, sort, rows, cap, connExc, execExc) ==
  LET columns == _select_columns(entity)
      pk_name == entity.primary_key
      stmt == ListQuery(entity, page, page_size, sort)
      conn == GetConnection(0, cap, connExc)
      ids == Slice(OrderIds(DOMAIN rows, rows, stmt.col, stmt.dir, pk_name),
                   stmt.limit, stmt.offset)
      log == <<Ev("acquire", 1), Ev("execute", 1), Ev("release", 1)>>
  IN IF \/ ~SelectIdentifiersSafe(entity, columns)
        \/ (stmt.col # "" /\ ~_safe_identifier(stmt.col))
       THEN [raised |-> TRUE, exc |-> UnsafeIdentifierExc, ret |-> RetNone, log |-> <<>>]
     ELSE IF conn.raised THEN [raised |-> TRUE, exc |-> conn.exc, ret |-> RetNone, log |-> <<>>]
     ELSE IF execExc # NoExc
       THEN [raised |-> TRUE, exc |-> execExc, ret |-> RetNone, log |-> log]
     ELSE [raised |-> FALSE, exc |-> NoExc,
           ret |-> RetList([k \in 1..Len(ids) |-> RowDict(rows, ids[k], columns, pk_name)]),
           log |-> log]

\* display LIKE '%q%': a NULL display never matches
Like(v, q) == v.t = "str" /\ Contains(Chars(v.s), Chars(q))

SearchLookup(entity, q, limit, rows, cap, connExc, execExc) ==
  LET columns == _select_columns(entity)
      display_col == IF Len(columns) < 2 THEN columns[1] ELSE columns[2]
      pk_col == columns[1]
      pk_name == entity.primary_key
      conn == GetConnection(0, cap, connExc)
      hits == {i \in DOMAIN rows : Like(ColumnOf(rows, i, display_col, pk_name), q)}
      ids == Slice(OrderIds(hits, rows, display_col, "ASC", pk_name), limit, 0)
      log == <<Ev("acquire", 1), Ev("execute", 1), Ev("release", 1)>>
  IN IF \/ ~_safe_identifier(entity.table)
        \/ ~_safe_identifier(pk_col) \/ ~_safe_identifier(display_col)
       THEN [raised |-> TRUE, exc |-> UnsafeIdentifierExc, ret |-> RetNone, log |-> <<>>]
     ELSE IF conn.raised THEN [raised |-> TRUE, exc |-> conn.exc, ret |-> RetNone, log |-> <<>>]
     ELSE IF execExc # NoExc
       THEN [raised |-> TRUE, exc |-> execExc, ret |-> RetNone, log |-> log]
     ELSE [raised |-> FALSE, exc |-> NoExc,
           ret |-> RetList([k \in 1..Len(ids) |->
                     RowDict(rows, ids[k], <<pk_col, display_col>>, pk_name)]),
           log |-> log]

(***************************************************************************)
(* generic_service: RenderContext and error classification.                *)
(***************************************************************************)
NoForm == [present |-> FALSE, sections |-> <<>>, actions |-> <<>>]
FormOf(entity) ==
  [present |-> TRUE, sections |-> entity.form.sections, actions |-> entity.form.actions]

\* the value of the context key "action" when no action definition is set
NoAction == [name |-> "", label |-> ""]

\* a RenderContext; hasRecord tells whether the key "record" is present
BaseCtx ==
  [ok |-> FALSE, status |-> 0, error |-> "", mode |-> "", entity |-> "",
   hasRecord |-> FALSE, record |-> RetNone, errors |-> EmptyDict, form |-> NoForm,
   rows |-> <<>>, action |-> NoAction, result |-> None]

\* the fixed text of the 503 context ("service temporarily unavailable")
UnavailableMsg == "service temporarily unavailable"

\* _missing_entity answering 400 instead of 404
_missing_entity_BadRequest(entity_name, mode) ==
  [BaseCtx EXCEPT !.status = 400, !.error = "Unknown entity", !.mode = mode]

_missing_entity(entity_name, mode) ==
  [BaseCtx EXCEPT !.status = 404, !.error = "Unknown entity", !.mode = mode]

\* isinstance(exc, SQLAlchemyTimeoutError) or isinstance(exc, DBAPIError)
IsPoolOrDbapiError(exc) == exc.cls \in {"TimeoutError", "DBAPIError", "OperationalError"}

_error_context(entity, mode, exc) ==
  LET error_msg == Chars(exc.msg)
  IN IF /\ IsPoolOrDbapiError(exc)
        /\ \/ Contains(error_msg, Chars("QueuePool"))
           \/ Contains(Lower(error_msg), Chars("timeout"))
           \/ Contains(Lower(error_msg), Chars("pool"))
       THEN [BaseCtx EXCEPT !.status = 503, !.error = UnavailableMsg,
                            !.entity = entity.name, !.mode = mode]
     ELSE [BaseCtx EXCEPT !.status = 500, !.error = exc.msg,
                          !.entity = entity.name, !.mode = mode]

\* a handler clause that names only the database errors
CaughtByExceptException_DbOnly(exc) ==
  exc.cls \in {"TimeoutError", "DBAPIError", "OperationalError"}

\* what "except Exception" catches: every class the repository, the driver or
\* a handler raises derives from Exception
CaughtByExceptException(exc) ==
  exc.cls \in {"ValueError", "RuntimeError", "TimeoutError", "DBAPIError", "OperationalError",
              "CompileError"}

\* _get_entity: "get_entity(entities, entity_name) if entities else None";
\* a registry that is None or empty knows no entity
_get_entity(entities, entity_name) ==
  IF entities = None \/ DOMAIN entities = {} THEN FALSE
  ELSE entity_name \in DOMAIN entities

\* how the repository call or handler invoked by a service operation ended
NoInner == [raised |-> FALSE, exc |-> NoExc, val |-> RetNone]
Inner(r) == [raised |-> r.raised, exc |-> r.exc, val |-> r.ret]

\* outcome of a service operation: the context returned (or the exception
\* that escaped), the table left behind, the connection events of its
\* repository calls, the number of repository / handler calls it made and
\* how that call ended
SvcOut(ctx, escaped, rows, nextId, log, calls, inner) ==
  [ctx |-> ctx, escaped |-> escaped, rows |-> rows, nextId |-> nextId,
   log |-> log, calls |-> calls, inner |-> inner]

\* try: r = <repository call> except Exception as exc: return _error_context(...)
OnRepoError(entity, mode, r, rows, nextId) ==
  IF CaughtByExceptException(r.exc)
    THEN SvcOut(_error_context(entity, mode, r.exc), NoExc, rows, nextId, r.log, 1,
                [raised |-> TRUE, exc |-> r.exc, val |-> RetNone])
    ELSE SvcOut(BaseCtx, r.exc, rows, nextId, r.log, 1,
                [raised |-> TRUE, exc |-> r.exc, val |-> RetNone])

render_list(entities, entity_name, page, page_size, sort, rows, nextId, cap, F) ==
  IF ~_get_entity(entities, entity_name)
    THEN SvcOut(_missing_entity(entity_name, "list"), NoExc, rows, nextId, <<>>, 0, NoInner)
  ELSE LET entity == entities[entity_name]
           r == FetchList(entity, page, page_size, sort, rows, cap,
                          FaultAt(F, "conn"), FaultAt(F, "execute"))
       IN IF r.raised THEN OnRepoError(entity, "list", r, rows, nextId)
          ELSE SvcOut([BaseCtx EXCEPT !.ok = TRUE, !.status = 200, !.mode = "list",
                                      !.entity = entity_name, !.rows = r.ret.list],
                      NoExc, rows, nextId, r.log, 1, Inner(r))

render_detail(entities, entity_name, pk, rows, nextId, cap, F) ==
  IF ~_get_entity(entities, entity_name)
    THEN SvcOut(_missing_entity(entity_name, "view"), NoExc, rows, nextId, <<>>, 0, NoInner)
  ELSE LET entity == entities[entity_name]
           r == FetchDetail(entity, pk, rows, 0, cap,
                            FaultAt(F, "conn"), FaultAt(F, "execute"))
       IN IF r.raised THEN OnRepoError(entity, "view", r, rows, nextId)
          ELSE IF r.ret.isNone
            THEN SvcOut([BaseCtx EXCEPT !.status = 404, !.error = "not found",
                                        !.entity = entity_name, !.hasRecord = TRUE,
                                        !.mode = "view"],
                        NoExc, rows, nextId, r.log, 1, Inner(r))
          ELSE SvcOut([BaseCtx EXCEPT !.ok = TRUE, !.status = 200, !.entity = entity_name,
                                      !.hasRecord = TRUE, !.record = r.ret, !.mode = "view"],
                      NoExc, rows, nextId, r.log, 1, Inner(r))

\* pk = None asks for the empty create form
render_form(entities, entity_name, pk, rows, nextId, cap, F) ==
  IF ~_get_entity(entities, entity_name)
    THEN SvcOut(_missing_entity(entity_name, "form"), NoExc, rows, nextId, <<>>, 0, NoInner)
  ELSE LET entity == entities[entity_name]
           mode == IF pk = None THEN "create" ELSE "edit"
           r == FetchDetail(entity, pk, rows, 0, cap,
                            FaultAt(F, "conn"), FaultAt(F, "execute"))
       IN IF pk = None
            THEN SvcOut([BaseCtx EXCEPT !.ok = TRUE, !.status = 200, !.entity = entity_name,
                                        !.hasRecord = TRUE, !.mode = mode,
                                        !.form = FormOf(entity)],
                        NoExc, rows, nextId, <<>>, 0, NoInner)
          ELSE IF r.raised THEN OnRepoError(entity, mode, r, rows, nextId)
          ELSE IF r.ret.isNone
            THEN SvcOut([BaseCtx EXCEPT !.status = 404, !.error = "not found",
                                        !.entity = entity_name, !.hasRecord = TRUE,
                                        !.mode = mode],
                        NoExc, rows, nextId, r.log, 1, Inner(r))
          ELSE SvcOut([BaseCtx EXCEPT !.ok = TRUE, !.status = 200, !.entity = entity_name,
                                      !.hasRecord = TRUE, !.record = r.ret, !.mode = mode,
                                      !.form = FormOf(entity)],
                      NoExc, rows, nextId, r.log, 1, Inner(r))

(***************************************************************************)
(* handle_action.  A handler registry names the actions it has a callable  *)
(* for; the callable either returns result or raises exc.                  *)
(***************************************************************************)
NoHandlers == [names |-> {}, exc |-> NoExc, result |-> None, echo |-> FALSE]

RECURSIVE FirstNamed(_, _)
FirstNamed(actions, action_name) ==
  IF actions = <<>> THEN [found |-> FALSE, def |-> NoAction]
  ELSE IF Head(actions).name = action_name
    THEN [found |-> TRUE, def |-> Head(actions)]
  ELSE FirstNamed(Tail(actions), action_name)

\* _find_action searching list.actions before form.actions
_find_action_ListFirst(entity, action_name) ==
  LET inForm == FirstNamed(entity.form.actions, action_name)
      inList == FirstNamed(entity.list.actions, action_name)
  IN IF inList.found THEN inList ELSE inForm

_find_action(entity, action_name) ==
  LET inForm == FirstNamed(entity.form.actions, action_name)
      inList == FirstNamed(entity.list.actions, action_name)
  IN IF inForm.found THEN inForm ELSE inList

\* "payload or {}": None and the empty dict both become the empty dict
PayloadOrEmpty(payload) == IF payload = None \/ DOMAIN payload = {} THEN EmptyDict ELSE payload

\* what a registered handler returns for (entity, payload): a fixed result,
\* or, for the echoing handler, the entity's name and the number of keys of
\* the payload it was handed
HandlerReturn(handlers, entity, payload) ==
  IF handlers.echo THEN [t |-> "str", s |-> entity.name, n |-> Cardinality(DOMAIN payload)]
  ELSE handlers.result

handle_action(entities, entity_name, action_name, payload, handlers, rows, nextId) ==
  IF ~_get_entity(entities, entity_name)
    THEN SvcOut(_missing_entity(entity_name, "action"), NoExc, rows, nextId, <<>>, 0, NoInner)
  ELSE LET entity == entities[entity_name]
           action_def == _find_action(entity, action_name)
       IN IF ~action_def.found
            THEN SvcOut([BaseCtx EXCEPT !.status = 404, !.error = "Unknown action",
                                        !.entity = entity_name, !.mode = "action"],
                        NoExc, rows, nextId, <<>>, 0, NoInner)
          ELSE IF action_name \notin handlers.names
            THEN SvcOut([BaseCtx EXCEPT !.status = 501,
                                        !.error = "Action handler not registered",
                                        !.entity = entity_name, !.action = action_def.def,
                                        !.mode = "action"],
                        NoExc, rows, nextId, <<>>, 0, NoInner)
          ELSE IF handlers.exc # NoExc
            THEN OnRepoError(entity, "action",
                             [exc |-> handlers.exc, log |-> <<>>], rows, nextId)
          ELSE SvcOut([BaseCtx EXCEPT !.ok = TRUE, !.status = 200, !.entity = entity_name,
                                      !.action = action_def.def,
                                      !.result = HandlerReturn(handlers, entity,
                                                               PayloadOrEmpty(payload)),
                                      !.mode = "action"],
                      NoExc, rows, nextId, <<>>, 1,
                      [raised |-> FALSE, exc |-> NoExc, val |-> RetNone])

(***************************************************************************)
(* handle_save.                                                            *)
(***************************************************************************)
\* str(value)
StrOf(v) ==
  CASE v.t = "str" -> v.s
    [] v.t = "none" -> "None"
    [] v.n = 0 -> "0"
    [] v.n = 1 -> "1"
    [] OTHER -> "9"

NoError == [label |-> "", kind |-> ""]

\* _validate_field looking for the '.' anywhere in the value
_validate_field_DotAnywhere(field, value) ==
  IF field.required /\ (value = None \/ value = VStr(""))
    THEN [label |-> field.label, kind |-> "is required"]
  ELSE IF value = None \/ value = VStr("") THEN NoError
  ELSE IF /\ field.type = "email"
          /\ \/ ~Contains(Chars(StrOf(value)), Chars("@"))
             \/ ~Contains(Chars(StrOf(value)), Chars("."))
    THEN [label |-> field.label, kind |-> "must be a valid email address"]
  ELSE NoError

\* the error message for one field, or NoError (Python None) when it is valid
_validate_field(field, value) ==
  IF field.required /\ (value = None \/ value = VStr(""))
    THEN [label |-> field.label, kind |-> "is required"]
  ELSE IF value = None \/ value = VStr("") THEN NoError
  ELSE IF /\ field.type = "email"
          /\ \/ ~Contains(Chars(StrOf(value)), Chars("@"))
             \/ ~Contains(AfterLast(Chars(StrOf(value)), "@"), Chars("."))
    THEN [label |-> field.label, kind |-> "must be a valid email address"]
  ELSE NoError

\* validation that stops at the first failing field
ValidationErrors_FirstOnly(entity, payload) ==
  LET fields == FormFields(entity)
      bad == {i \in 1..Len(fields) :
                /\ fields[i].name # ""
                /\ _validate_field(fields[i], Get(payload, fields[i].name)) # NoError}
      first == CHOOSE i \in bad : \A j \in bad : i <= j
  IN IF bad = {} THEN EmptyDict
     ELSE [nm \in {fields[first].name} |->
             _validate_field(fields[first], Get(payload, nm))]

\* the errors dict handle_save builds over all named form fields
ValidationErrors(entity, payload) ==
  LET fields == {f \in SeqRange(FormFields(entity)) : f.name # ""}
      failing == {f \in fields : _validate_field(f, Get(payload, f.name)) # NoError}
  IN [nm \in {f.name : f \in failing} |->
        LET f == CHOOSE g \in failing : g.name = nm
        IN _validate_field(f, Get(payload, nm))]

\* except ValueError in handle_save ("Record not found for update")
CaughtAsNotFound(exc) == exc.cls = "ValueError"

\* handle_save's is_update: pk_name in payload and its value not in (None, "", "0", 0)
ServiceIsUpdate(entity, payload) ==
  /\ entity.primary_key \in DOMAIN payload
  /\ ~InNoneEmptyZero(Get(payload, entity.primary_key))
  /\ Get(payload, entity.primary_key) # VStr("0")

\* the payload handle_save hands to generic_repo.save: the primary key of an
\* update converted with int() where that succeeds, then the whitelist
HandedToSave(entity, payload) ==
  LET pk_name == entity.primary_key
      \* payload[pk_name] = int(payload[pk_name]), ValueError/TypeError ignored
      payload2 == IF ServiceIsUpdate(entity, payload) /\ pk_name \in DOMAIN payload
                    THEN Put(payload, pk_name, IntOf(payload[pk_name]))
                    ELSE payload
      allowed_fields == {pk_name} \cup
                        {f.name : f \in {g \in SeqRange(FormFields(entity)) : g.name # ""}}
  IN Restrict(payload2, allowed_fields)

handle_save(entities, entity_name, payload, rows, nextId, cap, auto, F) ==
  IF ~_get_entity(entities, entity_name)
    THEN SvcOut(_missing_entity(entity_name, "edit"), NoExc, rows, nextId, <<>>, 0, NoInner)
  ELSE LET entity == entities[entity_name]
           pk_name == entity.primary_key
           is_update == ServiceIsUpdate(entity, payload)
           mode == IF is_update THEN "edit" ELSE "create"
           errors == ValidationErrors(entity, payload)
           filtered_payload == HandedToSave(entity, payload)
           r == Save(entity, filtered_payload, rows, nextId, cap, auto, F)
       IN IF DOMAIN errors # {}
            THEN SvcOut([BaseCtx EXCEPT !.status = 400, !.entity = entity_name,
                                        !.hasRecord = TRUE, !.record = RetRec(payload),
                                        !.mode = mode, !.form = FormOf(entity),
                                        !.errors = errors],
                        NoExc, rows, nextId, <<>>, 0, NoInner)
          ELSE IF r.raised /\ CaughtAsNotFound(r.exc)
            THEN SvcOut([BaseCtx EXCEPT !.status = 404, !.error = r.exc.msg,
                                        !.entity = entity_name, !.hasRecord = TRUE,
                                        !.record = RetRec(filtered_payload), !.mode = mode],
                        NoExc, r.rows, r.nextId, r.log, 1, Inner(r))
          ELSE IF r.raised THEN OnRepoError(entity, mode, r, r.rows, r.nextId)
          ELSE SvcOut([BaseCtx EXCEPT !.ok = TRUE, !.status = 200, !.entity = entity_name,
                                      !.hasRecord = TRUE, !.record = r.ret, !.mode = "view"],
                      NoExc, r.rows, r.nextId, r.log, 1, Inner(r))

(***************************************************************************)
(* Inputs of the requests.                                                 *)
(***************************************************************************)
OpError == Exc("OperationalError", "database unavailable")

\* exceptions a driver, the pool or an action handler may raise
AllExcs ==
  {PoolTimeout, OpError,
   Exc("TimeoutError", "query timeout"),
   Exc("RuntimeError", "boom"),
   Exc("ValueError", "handler failed")}

\* faults of a read call: none, a failing get_connection, a failing execute
ReadFaults ==
  {NoFault} \cup {[at |-> "conn", exc |-> e, rb |-> FALSE] : e \in AllExcs}
            \cup {[at |-> "execute", exc |-> OpError, rb |-> FALSE]}

\* faults of a direct repository read
RepoReadFaults ==
  {NoFault, [at |-> "conn", exc |-> PoolTimeout, rb |-> FALSE],
   [at |-> "execute", exc |-> OpError, rb |-> FALSE]}

\* a fault is part of a request only if it shows: the call it is injected
\* into ends differently than it would without it
Manifest(F, r, r0) == F = NoFault \/ r # r0

\* a fault is injected into the saves of payloads that carry a name and only
\* declared columns
FaultedPayload(payload, F) ==
  F # NoFault => /\ DOMAIN payload \subseteq TableCols \cup {"id"}
                 /\ "name" \in DOMAIN payload

\* faults of a save call
SaveFaults ==
  {NoFault}
    \cup {[at |-> "conn", exc |-> e, rb |-> FALSE] :
             e \in {PoolTimeout, OpError}}
    \cup {[at |-> "execute", exc |-> OpError, rb |-> b] : b \in BOOLEAN}
    \cup {[at |-> "nopk", exc |-> NoExc, rb |-> b] : b \in BOOLEAN}
    \cup {[at |-> "commit", exc |-> OpError, rb |-> FALSE],
          [at |-> "reread", exc |-> OpError, rb |-> FALSE]}

\* marks a key the payload does not carry
Absent == [t |-> "absent", s |-> "", n |-> 0]

\* the dict of the keys that are given a value
DictOf(id, name, email, e_mail) ==
  LET f == ("id" :> id) @@ ("name" :> name) @@ ("email" :> email) @@ ("e-mail" :> e_mail)
  IN [k \in {x \in DOMAIN f : f[x] # Absent} |-> f[k]]

\* all dicts that give each key of some subset of the keys one of its values
PayloadsOver(vals) ==
  {DictOf(id, name, email, e_mail) :
     id \in vals["id"] \cup {Absent}, name \in vals["name"] \cup {Absent},
     email \in vals["email"] \cup {Absent}, e_mail \in vals["e-mail"] \cup {Absent}}

\* the key "e-mail" of entity legacy comes alone or with the primary key
LegacyOrDeclared(d) == "e-mail" \in DOMAIN d => DOMAIN d \subseteq {"id", "e-mail"}

\* payloads handed to generic_repo.save directly
RepoPayloadValues ==
  [id |-> {None, VStr(""), VInt(0), VStr("0"), VInt(1), VInt(9)},
   name |-> {VStr("Bo")}, email |-> {VStr("a@b.c")}] @@ ("e-mail" :> {VStr("x")})

RepoPayloads == {d \in PayloadsOver(RepoPayloadValues) : LegacyOrDeclared(d)}

\* payloads posted to handle_save
FormPayloadValues ==
  [id |-> {VStr(""), VInt(0), VStr("0"), VInt(1), VStr("9")},
   name |-> {VStr(""), VStr("Bo")},
   email |-> {VStr("bad"), VStr("a@b.c")}] @@ ("e-mail" :> {VStr("x")})

FormPayloads == {d \in PayloadsOver(FormPayloadValues) : LegacyOrDeclared(d)}

PkArgs == {VInt(1), VInt(2), VInt(9)}
PageArgs == {None, VInt(-1), VInt(0), VInt(1), VInt(2)}
PageSizeArgs == {None, VInt(-1), VInt(0), VInt(1)}

\* faults of a list call with these arguments: every fault for the default
\* arguments, and a backend rejecting the statement of a negative page_size
ListFaults(pg, ps, faults) ==
  IF pg = None /\ ps = None THEN faults
  ELSE IF pg = None /\ ps = VInt(-1)
    THEN {NoFault, [at |-> "execute", exc |-> OpError, rb |-> FALSE]}
  ELSE {NoFault}
QueryArgs == {"", "o", "x"}
LimitArgs == {0, 1, 2}
ActionNames == {"calc_points", "export_csv", "nope"}

\* handler registries: none (None or {}), one that lacks calc_points, and
\* full ones whose callables return a fixed result, echo their arguments, or
\* raise
HandlerRegs ==
  {NoHandlers}
    \cup {[names |-> {"export_csv"}, exc |-> NoExc, result |-> VStr("x"), echo |-> FALSE]}
    \cup {[names |-> {"calc_points", "export_csv"}, exc |-> NoExc, result |-> VStr("x"),
           echo |-> b] : b \in BOOLEAN}
    \cup {[names |-> {"calc_points", "export_csv"}, exc |-> e, result |-> None,
           echo |-> FALSE] : e \in AllExcs}

\* the registry handed to a service operation: the loaded entities, an
\* empty dict, or None
Registries == [loaded |-> Entities, empty |-> EmptyDict, none |-> None]

\* a request against a registry that is not loaded is made with default
\* arguments; an injected fault accompanies the default page arguments
Loaded(reg) == reg = "loaded"

\* payloads posted against a registry that is not loaded: a new record and
\* an update of record 1
UnloadedPayloads ==
  {[name |-> VStr("Bo"), email |-> VStr("a@b.c")],
   [id |-> VInt(1), name |-> VStr("Bo"), email |-> VStr("a@b.c")]}

\* handler registries offered with a registry that is not loaded: none, and
\* a full one whose callables return
UnloadedHandlerRegs ==
  {h \in HandlerRegs : h.exc = NoExc /\ ~h.echo /\ h.names # {"export_csv"}}

\* payloads of an action request: none, empty, one key
ActionPayloads == {None, EmptyDict, [name |-> VStr("Bo")]}

(***************************************************************************)
(* State.                                                                  *)
(***************************************************************************)
VARIABLES
  rows,        \* table customers: id -> [name, email]
  nextId,      \* next value of the identity column
  poolCap,     \* pool_size + max_overflow of the engine's QueuePool
  autocommit,  \* whether the driver connection runs in autocommit mode
  phase,       \* "idle", or "done" while a response awaits the route layer
  req,         \* the request being answered
  before,      \* the table when the request arrived
  ret,         \* how the repository call (or handler) of the request ended
  ctx,         \* RenderContext returned by a service operation
  escaped,     \* exception that escaped the service operation, or NoExc
  log,         \* connection events of the request's repository calls
  calls        \* repository / handler calls the service operation made

\* module db: its globals, and the threads that call into it
VARIABLES
  _engine,                   \* the engine (its number), or 0 for None
  _SessionFactory,           \* the engine the session factory is bound to, or 0 for None
  _initialized,              \* the initialised flag
  _uses_client_credentials,  \* whether the engine authenticates with a fetched token
  _pool_lock,                \* the thread holding the lock, or 0
  engines,                   \* number of engines create_engine has made so far
  made,                      \* engines created since the last reset by close_pool
  pc,                        \* per thread: where it stands
  cont,                      \* per thread: where it goes when the call it is in returns
  op,                        \* per thread: the function of db it called
  out,                       \* per thread: what its call observed and how it ended
  fresh                      \* per thread: the pool was initialised when it last looked,
                             \* and close_pool has not reset it since

svcVars == <<rows, nextId, poolCap, autocommit, phase, req, before, ret, ctx, escaped, log, calls>>

dbVars == <<_engine, _SessionFactory, _initialized, _uses_client_credentials, _pool_lock,
            engines, made, pc, cont, op, out, fresh>>

\* module entities_loader: the file handed to load_entities and what it returned
VARIABLES
  file,     \* the YAML file: how reading it ends and, for a mapping, its entries in order
  result    \* the ValidationResult, or NoResult before the call

ldrVars == <<file, result>>

\* one call of _validate_field
VARIABLES
  vField,   \* the form field definition
  vValue,   \* payload.get(field_name), Absent when the payload lacks the key
  vError    \* the message returned, NoError for None, NotValidated before the call

valVars == <<vField, vValue, vError>>

\* module db, access tokens: the cache and the clock, for one thread
VARIABLES
  clock,         \* time.time(), in seconds
  _token_cache,  \* NoToken for None, else the cached token's expires_at
  fetchedAt,     \* when the cached token was fetched
  poolReady,     \* _initialized, with client credentials configured
  tokCall        \* what the last call did

tokVars == <<clock, _token_cache, fetchedAt, poolReady, tokCall>>

vars == <<svcVars, dbVars, ldrVars, valVars, tokVars>>

\* what a request to the service or the repository leaves alone
NotSvc == <<dbVars, ldrVars, valVars, tokVars>>

\* what a call into module db leaves alone
NotDb == <<svcVars, ldrVars, valVars, tokVars>>

\* what load_entities leaves alone
NotLdr == <<svcVars, dbVars, valVars, tokVars>>

\* what _validate_field leaves alone
NotVal == <<svcVars, dbVars, ldrVars, tokVars>>

\* what the token handling leaves alone
NotTok == <<svcVars, dbVars, ldrVars, valVars>>

NThreads == 2
Threads == 1..NThreads

\* cap on the engines created in one run
MaxEngines == 3

NoOut ==
  [raised |-> FALSE, engine |-> 0, made |-> {}, fresh |-> FALSE, disposeRaised |-> FALSE,
   noneEngine |-> FALSE]

\* module db as imported: lines 14-19
DbImported ==
  /\ _engine = 0
  /\ _SessionFactory = 0
  /\ _initialized = FALSE
  /\ _uses_client_credentials = FALSE
  /\ _pool_lock = 0
  /\ engines = 0
  /\ made = {}
  /\ pc = [t \in Threads |-> "idle"]
  /\ cont = [t \in Threads |-> <<>>]
  /\ op = [t \in Threads |-> ""]
  /\ out = [t \in Threads |-> NoOut]
  /\ fresh = [t \in Threads |-> FALSE]

NoReq ==
  [op |-> "", entity |-> "", payload |-> EmptyDict, pk |-> None, page |-> None,
   page_size |-> None, sort |-> "", q |-> "", limit |-> 0, action |-> "",
   handlers |-> NoHandlers, registry |-> "loaded", F |-> NoFault]

NoRet == [raised |-> FALSE, exc |-> NoExc, val |-> RetNone]

InitialRows == [i \in {1} |-> [name |-> VStr("Al"), email |-> VStr("a@b.c")]]

\* the application before its first request
SvcImported ==
  /\ rows = InitialRows
  /\ nextId = 2
  /\ poolCap \in {1, 2}
  /\ autocommit \in (IF poolCap = 1 THEN {FALSE} ELSE BOOLEAN)
  /\ phase = "idle"
  /\ req = NoReq
  /\ before = InitialRows
  /\ ret = NoRet
  /\ ctx = BaseCtx
  /\ escaped = NoExc
  /\ log = <<>>
  /\ calls = 0

\* one engine configuration for the specifications that are not about requests
SvcFixed == SvcImported /\ poolCap = 2 /\ autocommit = FALSE

NoResult == [called |-> FALSE, success |-> FALSE, entities |-> EmptyDict, errors |-> <<>>]

NoFile == [kind |-> "missing", items |-> <<>>]

\* no file has been loaded
LoaderIdle == file = NoFile /\ result = NoResult

NotValidated == [label |-> "", kind |-> "not validated"]

\* no field has been validated
ValidatorIdle ==
  /\ vField = [name |-> "", label |-> "", type |-> "text", required |-> FALSE]
  /\ vValue = None
  /\ vError = NotValidated

NoToken == [cached |-> FALSE, expires_at |-> 0]

NoTokCall == [op |-> "", at |-> 0, fetches |-> 0, reinit |-> FALSE, examined |-> 0]

\* module db imported: no token cached, no pool
TokenImported ==
  /\ clock = 0
  /\ _token_cache = NoToken
  /\ fetchedAt = 0
  /\ poolReady = FALSE
  /\ tokCall = NoTokCall

Init == SvcImported /\ DbImported /\ LoaderIdle /\ ValidatorIdle /\ TokenImported

\* a direct repository call answered with result r
RepoDone(request, r, newRows, newId) ==
  /\ phase = "idle"
  /\ newId <= MaxId + 1
  /\ phase' = "done"
  /\ req' = request
  /\ before' = rows
  /\ rows' = newRows
  /\ nextId' = newId
  /\ ret' = [raised |-> r.raised, exc |-> r.exc, val |-> r.ret]
  /\ log' = r.log
  /\ ctx' = BaseCtx
  /\ escaped' = NoExc
  /\ calls' = 1
  /\ UNCHANGED <<poolCap, autocommit>>
  /\ UNCHANGED NotSvc

\* a service operation answered with outcome o
SvcDone(request, o) ==
  /\ phase = "idle"
  /\ o.nextId <= MaxId + 1
  /\ phase' = "done"
  /\ req' = request
  /\ before' = rows
  /\ rows' = o.rows
  /\ nextId' = o.nextId
  /\ ret' = o.inner
  /\ log' = o.log
  /\ ctx' = o.ctx
  /\ escaped' = o.escaped
  /\ calls' = o.calls
  /\ UNCHANGED <<poolCap, autocommit>>
  /\ UNCHANGED NotSvc

RepoFetchList ==
  /\ phase = "idle"
  /\ \E e \in DOMAIN Entities, pg \in PageArgs, ps \in PageSizeArgs, srt \in SortArgs :
     \E F \in ListFaults(pg, ps, RepoReadFaults) :
       LET call(G) == FetchList(Entities[e], pg, ps, srt, rows, poolCap,
                                FaultAt(G, "conn"), FaultAt(G, "execute"))
       IN \E o \in {call(F)} :
          /\ Manifest(F, o, call(NoFault))
          /\ RepoDone([NoReq EXCEPT !.op = "fetch_list", !.entity = e, !.page = pg,
                                    !.page_size = ps, !.sort = srt, !.F = F],
                      o, rows, nextId)

RepoFetchDetail ==
  /\ phase = "idle"
  /\ \E e \in DOMAIN Entities, pk \in PkArgs, F \in RepoReadFaults :
       LET call(G) == FetchDetail(Entities[e], pk, rows, 0, poolCap,
                                  FaultAt(G, "conn"), FaultAt(G, "execute"))
       IN \E o \in {call(F)} :
          /\ Manifest(F, o, call(NoFault))
          /\ RepoDone([NoReq EXCEPT !.op = "fetch_detail", !.entity = e, !.pk = pk, !.F = F],
                      o, rows, nextId)

RepoSearchLookup ==
  /\ phase = "idle"
  /\ \E e \in DOMAIN Entities, q \in QueryArgs, lim \in LimitArgs, F \in RepoReadFaults :
       LET call(G) == SearchLookup(Entities[e], q, lim, rows, poolCap,
                                   FaultAt(G, "conn"), FaultAt(G, "execute"))
       IN \E o \in {call(F)} :
          /\ Manifest(F, o, call(NoFault))
          /\ RepoDone([NoReq EXCEPT !.op = "search_lookup", !.entity = e, !.q = q,
                                    !.limit = lim, !.F = F],
                      o, rows, nextId)

RepoSave ==
  /\ phase = "idle"
  /\ \E e \in DOMAIN Entities, p \in RepoPayloads, F \in SaveFaults :
     /\ FaultedPayload(p, F)
     /\ LET call(G) == Save(Entities[e], p, rows, nextId, poolCap, autocommit, G)
        IN \E r \in {call(F)} :
           /\ Manifest(F, r, call(NoFault))
           /\ RepoDone([NoReq EXCEPT !.op = "save", !.entity = e, !.payload = p, !.F = F],
                       r, r.rows, r.nextId)

RenderList ==
  /\ phase = "idle"
  /\ \E reg \in DOMAIN Registries, e \in EntityNames :
     \E pg \in (IF Loaded(reg) THEN PageArgs ELSE {None}),
        ps \in (IF Loaded(reg) THEN PageSizeArgs ELSE {None}),
        srt \in (IF Loaded(reg) THEN SortArgs ELSE {""}) :
     \E F \in ListFaults(pg, ps, ReadFaults) :
       LET call(G) == render_list(Registries[reg], e, pg, ps, srt, rows, nextId, poolCap, G)
       IN \E o \in {call(F)} :
          /\ Manifest(F, o, call(NoFault))
          /\ SvcDone([NoReq EXCEPT !.op = "render_list", !.entity = e, !.page = pg,
                                   !.page_size = ps, !.sort = srt, !.registry = reg,
                                   !.F = F], o)

RenderDetail ==
  /\ phase = "idle"
  /\ \E reg \in DOMAIN Registries, e \in EntityNames, pk \in PkArgs, F \in ReadFaults :
       LET call(G) == render_detail(Registries[reg], e, pk, rows, nextId, poolCap, G)
       IN \E o \in {call(F)} :
          /\ Manifest(F, o, call(NoFault))
          /\ SvcDone([NoReq EXCEPT !.op = "render_detail", !.entity = e, !.pk = pk,
                                   !.registry = reg, !.F = F], o)

RenderForm ==
  /\ phase = "idle"
  /\ \E reg \in DOMAIN Registries, e \in EntityNames, pk \in PkArgs \cup {None},
        F \in ReadFaults :
       LET call(G) == render_form(Registries[reg], e, pk, rows, nextId, poolCap, G)
       IN \E o \in {call(F)} :
          /\ Manifest(F, o, call(NoFault))
          /\ SvcDone([NoReq EXCEPT !.op = "render_form", !.entity = e, !.pk = pk,
                                   !.registry = reg, !.F = F], o)

HandleSave ==
  /\ phase = "idle"
  /\ \E reg \in DOMAIN Registries, e \in EntityNames :
     \E p \in (IF Loaded(reg) THEN FormPayloads ELSE UnloadedPayloads), F \in SaveFaults :
     /\ FaultedPayload(p, F)
     /\ LET call(G) == handle_save(Registries[reg], e, p, rows, nextId, poolCap, autocommit, G)
        IN \E o \in {call(F)} :
           /\ Manifest(F, o, call(NoFault))
           /\ SvcDone([NoReq EXCEPT !.op = "handle_save", !.entity = e, !.payload = p,
                                    !.registry = reg, !.F = F], o)

HandleAction ==
  /\ phase = "idle"
  /\ \E reg \in DOMAIN Registries, e \in EntityNames, a \in ActionNames :
     \E h \in (IF Loaded(reg) THEN HandlerRegs ELSE UnloadedHandlerRegs) :
     \E p \in (IF Loaded(reg) /\ h.echo THEN ActionPayloads ELSE {None}) :
     \E o \in {handle_action(Registries[reg], e, a, p, h, rows, nextId)} :
       SvcDone([NoReq EXCEPT !.op = "handle_action", !.entity = e, !.action = a,
                             !.handlers = h, !.payload = p, !.registry = reg], o)

\* the route layer turns the outcome into the HTTP response and drops it
Respond ==
  /\ phase = "done"
  /\ phase' = "idle"
  /\ req' = NoReq
  /\ before' = rows
  /\ ret' = NoRet
  /\ ctx' = BaseCtx
  /\ escaped' = NoExc
  /\ log' = <<>>
  /\ calls' = 0
  /\ UNCHANGED <<rows, nextId, poolCap, autocommit>>
  /\ UNCHANGED NotSvc

Next ==
  \/ RepoFetchList
  \/ RepoFetchDetail
  \/ RepoSearchLookup
  \/ RepoSave
  \/ RenderList
  \/ RenderDetail
  \/ RenderForm
  \/ HandleSave
  \/ HandleAction
  \/ Respond

Spec == Init /\ [][Next]_vars

(***************************************************************************)
(* Module db: init_pool, close_pool, get_engine, get_connection and        *)
(* get_session called from threads.  A thread takes one step at a time;    *)
(* the steps of a "with _pool_lock" block are taken holding the lock.      *)
(***************************************************************************)
\* the thread goes where its current call returns to
Goto(t, label) == pc' = [pc EXCEPT ![t] = label]

Pop(t) ==
  /\ pc' = [pc EXCEPT ![t] = Head(cont[t])]
  /\ cont' = [cont EXCEPT ![t] = Tail(cont[t])]

\* an exception leaves the function the thread called
Raise(t) ==
  /\ pc' = [pc EXCEPT ![t] = "returned"]
  /\ cont' = [cont EXCEPT ![t] = <<>>]
  /\ out' = [out EXCEPT ![t] = [NoOut EXCEPT !.raised = TRUE]]

\* _engine.raw_connection() with _engine None: the attribute access raises
\* AttributeError, which is none of the pool's errors
RaiseOnNoneEngine(t) ==
  /\ pc' = [pc EXCEPT ![t] = "returned"]
  /\ cont' = [cont EXCEPT ![t] = <<>>]
  /\ out' = [out EXCEPT ![t] = [NoOut EXCEPT !.raised = TRUE, !.noneEngine = TRUE]]

\* init_pool(); get_engine()
CallInitPool ==
  \E t \in Threads :
    /\ pc[t] = "idle"
    /\ Goto(t, "init_enter")
    /\ cont' = [cont EXCEPT ![t] = <<"get_engine">>]
    /\ op' = [op EXCEPT ![t] = "init_pool"]
    /\ UNCHANGED <<_engine, _SessionFactory, _initialized, _uses_client_credentials,
                   _pool_lock, engines, made, out, fresh>>
    /\ UNCHANGED NotDb

\* with _pool_lock: (init_pool)
InitPoolAcquire ==
  \E t \in Threads :
    /\ pc[t] = "init_enter"
    /\ _pool_lock = 0
    /\ _pool_lock' = t
    /\ Goto(t, "init_locked")
    /\ UNCHANGED <<_engine, _SessionFactory, _initialized, _uses_client_credentials,
                   engines, made, cont, op, out, fresh>>
    /\ UNCHANGED NotDb

\* init_pool that never finds the pool initialised
AlreadyInitialised_Never(flag) == FALSE

\* if _initialized: return
AlreadyInitialised(flag) == flag

InitPoolCheck ==
  \E t \in Threads :
    /\ pc[t] = "init_locked"
    /\ Goto(t, IF AlreadyInitialised(_initialized) THEN "init_exit" ELSE "init_config")
    /\ UNCHANGED <<_engine, _SessionFactory, _initialized, _uses_client_credentials,
                   _pool_lock, engines, made, cont, op, out, fresh>>
    /\ UNCHANGED NotDb

\* _load_config() ... _engine = create_engine(...): the configuration, the
\* token request or create_engine may raise, which leaves the with block;
\* _uses_client_credentials is assigned on the way
InitPoolCreate ==
  \E t \in Threads :
    /\ pc[t] = "init_config"
    /\ \E cc \in BOOLEAN :
         /\ _uses_client_credentials' = cc
         /\ \/ /\ Raise(t)
               /\ _pool_lock' = 0
               /\ UNCHANGED <<_engine, engines, made>>
            \/ /\ engines < MaxEngines
               /\ engines' = engines + 1
               /\ _engine' = engines + 1
               /\ made' = made \cup {engines + 1}
               /\ Goto(t, "init_created")
               /\ UNCHANGED <<_pool_lock, cont, out>>
    /\ UNCHANGED <<_SessionFactory, _initialized, op, fresh>>
    /\ UNCHANGED NotDb

\* _SessionFactory = sessionmaker(bind=_engine, ...); _initialized = True
InitPoolFinish ==
  \E t \in Threads :
    /\ pc[t] = "init_created"
    /\ _SessionFactory' = _engine
    /\ _initialized' = TRUE
    /\ Goto(t, "init_exit")
    /\ UNCHANGED <<_engine, _uses_client_credentials, _pool_lock, engines, made,
                   cont, op, out, fresh>>
    /\ UNCHANGED NotDb

\* init_pool returns, releasing the lock
InitPoolExit ==
  \E t \in Threads :
    /\ pc[t] = "init_exit"
    /\ _pool_lock' = 0
    /\ fresh' = [fresh EXCEPT ![t] = TRUE]
    /\ Pop(t)
    /\ UNCHANGED <<_engine, _SessionFactory, _initialized, _uses_client_credentials,
                   engines, made, op, out>>
    /\ UNCHANGED NotDb

\* get_engine()
GetEngine ==
  \E t \in Threads :
    /\ pc[t] = "get_engine"
    /\ out' = [out EXCEPT ![t] = [NoOut EXCEPT !.engine = _engine, !.made = made,
                                               !.fresh = fresh[t]]]
    /\ Goto(t, "returned")
    /\ UNCHANGED <<_engine, _SessionFactory, _initialized, _uses_client_credentials,
                   _pool_lock, engines, made, cont, op, fresh>>
    /\ UNCHANGED NotDb

\* close_pool()
CallClosePool ==
  \E t \in Threads :
    /\ pc[t] = "idle"
    /\ Goto(t, "close_enter")
    /\ cont' = [cont EXCEPT ![t] = <<"returned">>]
    /\ op' = [op EXCEPT ![t] = "close_pool"]
    /\ UNCHANGED <<_engine, _SessionFactory, _initialized, _uses_client_credentials,
                   _pool_lock, engines, made, out, fresh>>
    /\ UNCHANGED NotDb

\* with _pool_lock: (close_pool)
ClosePoolAcquire ==
  \E t \in Threads :
    /\ pc[t] = "close_enter"
    /\ _pool_lock = 0
    /\ _pool_lock' = t
    /\ Goto(t, "close_locked")
    /\ UNCHANGED <<_engine, _SessionFactory, _initialized, _uses_client_credentials,
                   engines, made, cont, op, out, fresh>>
    /\ UNCHANGED NotDb

\* if not _initialized: return
ClosePoolCheck ==
  \E t \in Threads :
    /\ pc[t] = "close_locked"
    /\ Goto(t, IF ~_initialized THEN "close_exit" ELSE "close_dispose")
    /\ UNCHANGED <<_engine, _SessionFactory, _initialized, _uses_client_credentials,
                   _pool_lock, engines, made, cont, op, out, fresh>>
    /\ UNCHANGED NotDb

\* the globals as close_pool would leave them with the reset placed after
\* dispose() in the try block instead of in finally
CloseReset_NoFinally(disposeRaised) ==
  IF disposeRaised
    THEN [engine |-> _engine, factory |-> _SessionFactory, initialized |-> _initialized,
          cc |-> _uses_client_credentials]
    ELSE [engine |-> 0, factory |-> 0, initialized |-> FALSE, cc |-> FALSE]

\* try: _engine.dispose() except Exception: log finally: reset the globals
CloseReset(disposeRaised) ==
  [engine |-> 0, factory |-> 0, initialized |-> FALSE, cc |-> FALSE]

ClosePoolDispose ==
  \E t \in Threads :
    /\ pc[t] = "close_dispose"
    /\ \E disposeRaised \in BOOLEAN :
         LET g == CloseReset(disposeRaised)
         IN /\ _engine' = g.engine
            /\ _SessionFactory' = g.factory
            /\ _initialized' = g.initialized
            /\ _uses_client_credentials' = g.cc
            /\ made' = IF g.engine = 0 THEN {} ELSE made
            /\ fresh' = IF g.initialized THEN fresh ELSE [u \in Threads |-> FALSE]
            /\ out' = [out EXCEPT ![t] = [NoOut EXCEPT !.disposeRaised = disposeRaised]]
    /\ Goto(t, "close_exit")
    /\ UNCHANGED <<_pool_lock, engines, cont, op>>
    /\ UNCHANGED NotDb

\* close_pool returns, releasing the lock
ClosePoolExit ==
  \E t \in Threads :
    /\ pc[t] = "close_exit"
    /\ _pool_lock' = 0
    /\ Pop(t)
    /\ UNCHANGED <<_engine, _SessionFactory, _initialized, _uses_client_credentials,
                   engines, made, op, out, fresh>>
    /\ UNCHANGED NotDb

\* get_connection(): if not _initialized: init_pool()
CallGetConnection ==
  \E t \in Threads :
    /\ pc[t] = "idle"
    /\ op' = [op EXCEPT ![t] = "get_connection"]
    /\ IF ~_initialized
         THEN /\ Goto(t, "init_enter")
              /\ cont' = [cont EXCEPT ![t] = <<"conn_token">>]
              /\ UNCHANGED fresh
         ELSE /\ Goto(t, "conn_token")
              /\ fresh' = [fresh EXCEPT ![t] = TRUE]
              /\ UNCHANGED cont
    /\ UNCHANGED <<_engine, _SessionFactory, _initialized, _uses_client_credentials,
                   _pool_lock, engines, made, out>>
    /\ UNCHANGED NotDb

\* a token close to expiry: close_pool(); init_pool()
GetConnToken ==
  \E t \in Threads :
    /\ pc[t] = "conn_token"
    /\ \E expiring \in (IF _uses_client_credentials THEN BOOLEAN ELSE {FALSE}) :
         IF expiring
           THEN /\ Goto(t, "close_enter")
                /\ cont' = [cont EXCEPT ![t] = <<"init_enter", "conn_raw">>]
           ELSE /\ Goto(t, "conn_raw")
                /\ UNCHANGED cont
    /\ UNCHANGED <<_engine, _SessionFactory, _initialized, _uses_client_credentials,
                   _pool_lock, engines, made, op, out, fresh>>
    /\ UNCHANGED NotDb

\* how _engine.raw_connection() may end
RawOutcomes == {"connection", "DBAPIError", "TimeoutError"}

\* the connection handed out, with what the thread saw of the pool
Connected(t) ==
  /\ out' = [out EXCEPT ![t] = [NoOut EXCEPT !.engine = _engine, !.made = made,
                                             !.fresh = fresh[t]]]
  /\ Goto(t, "returned")
  /\ UNCHANGED cont

\* conn = _engine.raw_connection(); on DBAPIError with token authentication:
\* close_pool(); init_pool() and one more attempt.  With _engine None the
\* attribute access raises.
GetConnRaw ==
  \E t \in Threads :
    /\ pc[t] = "conn_raw"
    /\ IF _engine = 0 THEN RaiseOnNoneEngine(t)
       ELSE \E outcome \in RawOutcomes :
              CASE outcome = "connection" -> Connected(t)
                [] outcome = "DBAPIError" /\ _uses_client_credentials ->
                     /\ Goto(t, "close_enter")
                     /\ cont' = [cont EXCEPT ![t] = <<"init_enter", "conn_retry">>]
                     /\ UNCHANGED out
                [] OTHER -> Raise(t)
    /\ UNCHANGED <<_engine, _SessionFactory, _initialized, _uses_client_credentials,
                   _pool_lock, engines, made, op, fresh>>
    /\ UNCHANGED NotDb

\* the second conn = _engine.raw_connection()
GetConnRetry ==
  \E t \in Threads :
    /\ pc[t] = "conn_retry"
    /\ IF _engine = 0 THEN RaiseOnNoneEngine(t)
       ELSE \E outcome \in RawOutcomes :
              IF outcome = "connection" THEN Connected(t) ELSE Raise(t)
    /\ UNCHANGED <<_engine, _SessionFactory, _initialized, _uses_client_credentials,
                   _pool_lock, engines, made, op, fresh>>
    /\ UNCHANGED NotDb

\* get_session(): if not _initialized: init_pool()
CallGetSession ==
  \E t \in Threads :
    /\ pc[t] = "idle"
    /\ op' = [op EXCEPT ![t] = "get_session"]
    /\ IF ~_initialized
         THEN /\ Goto(t, "init_enter")
              /\ cont' = [cont EXCEPT ![t] = <<"sess_make">>]
              /\ UNCHANGED fresh
         ELSE /\ Goto(t, "sess_make")
              /\ fresh' = [fresh EXCEPT ![t] = TRUE]
              /\ UNCHANGED cont
    /\ UNCHANGED <<_engine, _SessionFactory, _initialized, _uses_client_credentials,
                   _pool_lock, engines, made, out>>
    /\ UNCHANGED NotDb

\* return _SessionFactory(); calling None raises
GetSessionMake ==
  \E t \in Threads :
    /\ pc[t] = "sess_make"
    /\ IF _SessionFactory = 0 THEN Raise(t)
       ELSE /\ out' = [out EXCEPT ![t] = [NoOut EXCEPT !.engine = _SessionFactory,
                                                       !.made = made, !.fresh = fresh[t]]]
            /\ Goto(t, "returned")
            /\ UNCHANGED cont
    /\ UNCHANGED <<_engine, _SessionFactory, _initialized, _uses_client_credentials,
                   _pool_lock, engines, made, op, fresh>>
    /\ UNCHANGED NotDb

\* the caller goes on with what the call gave it
Return ==
  \E t \in Threads :
    /\ pc[t] = "returned"
    /\ Goto(t, "idle")
    /\ op' = [op EXCEPT ![t] = ""]
    /\ out' = [out EXCEPT ![t] = NoOut]
    /\ UNCHANGED <<_engine, _SessionFactory, _initialized, _uses_client_credentials,
                   _pool_lock, engines, made, cont, fresh>>
    /\ UNCHANGED NotDb

DbInit == SvcFixed /\ DbImported /\ LoaderIdle /\ ValidatorIdle /\ TokenImported

DbNext ==
  \/ CallInitPool
  \/ InitPoolAcquire
  \/ InitPoolCheck
  \/ InitPoolCreate
  \/ InitPoolFinish
  \/ InitPoolExit
  \/ GetEngine
  \/ CallClosePool
  \/ ClosePoolAcquire
  \/ ClosePoolCheck
  \/ ClosePoolDispose
  \/ ClosePoolExit
  \/ CallGetConnection
  \/ GetConnToken
  \/ GetConnRaw
  \/ GetConnRetry
  \/ CallGetSession
  \/ GetSessionMake
  \/ Return

DbSpec == DbInit /\ [][DbNext]_vars

(***************************************************************************)
(* Module entities_loader: load_entities over a YAML file.  A file either  *)
(* cannot be read, is empty, has a root that is no mapping, or is a        *)
(* mapping whose entries are kept in file order; entry i has key i.        *)
(***************************************************************************)
MaxEntities == 2

\* the "list" value of a configuration is one of "columns_list",
\* "columns_scalar", "no_columns", "scalar" (not a dict); its "form" value one
\* of "sections_list", "sections_scalar", "no_sections", "scalar"

ConfigKeys == {"table", "label", "list", "form", "primary_key"}

\* an entity configuration as yaml.safe_load returns it: a dict with some of
\* the keys, or something that is no dict; primary_key may be given as null
RawConfig(isDict, keys, pk, listShape, formShape) ==
  [isDict |-> isDict, keys |-> keys, table |-> "customers", label |-> "Customer",
   primary_key |-> pk, list |-> listShape, form |-> formShape]

RawConfigs ==
  {RawConfig(TRUE, ConfigKeys \ {"primary_key"}, None, "columns_list", "sections_list"),
   RawConfig(TRUE, ConfigKeys, VStr("cid"), "columns_list", "sections_list"),
   RawConfig(TRUE, ConfigKeys, None, "columns_list", "sections_list"),
   RawConfig(FALSE, {}, None, "scalar", "scalar"),
   RawConfig(TRUE, {"table", "label"}, None, "scalar", "scalar"),
   RawConfig(TRUE, {"label", "list", "form"}, None, "columns_list", "sections_list"),
   RawConfig(TRUE, ConfigKeys \ {"primary_key"}, None, "scalar", "no_sections"),
   RawConfig(TRUE, ConfigKeys \ {"primary_key"}, None, "columns_scalar", "sections_list")}

LoaderErr(name, msg) == [entity |-> name, msg |-> msg]

\* for field in required_fields: if field not in config: errors.append(...)
RECURSIVE MissingFields(_, _, _)
MissingFields(name, config, required_fields) ==
  IF required_fields = <<>> THEN <<>>
  ELSE (IF Head(required_fields) \in config.keys THEN <<>>
        ELSE <<LoaderErr(name, Head(required_fields))>>)
       \o MissingFields(name, config, Tail(required_fields))

_validate_entity(name, config) ==
  IF ~config.isDict THEN <<LoaderErr(name, "configuration must be a dictionary")>>
  ELSE LET missing == MissingFields(name, config, <<"table", "label", "list", "form">>)
           listErrors ==
             CASE config.list = "scalar" -> <<LoaderErr(name, "'list' must be a dictionary")>>
               [] config.list = "no_columns" -> <<LoaderErr(name, "'list.columns' is required")>>
               [] config.list = "columns_scalar" ->
                    <<LoaderErr(name, "'list.columns' must be a list")>>
               [] OTHER -> <<>>
           formErrors ==
             CASE config.form = "scalar" -> <<LoaderErr(name, "'form' must be a dictionary")>>
               [] config.form = "no_sections" -> <<LoaderErr(name, "'form.sections' is required")>>
               [] config.form = "sections_scalar" ->
                    <<LoaderErr(name, "'form.sections' must be a list")>>
               [] OTHER -> <<>>
       IN IF missing # <<>> THEN missing ELSE listErrors \o formErrors

\* config.get('primary_key', 'id'): the default replaces an absent key only
_normalize_entity(name, config) ==
  [name |-> name, table |-> config.table, label |-> config.label,
   primary_key |-> IF "primary_key" \in config.keys THEN config.primary_key ELSE VStr("id"),
   list |-> config.list, form |-> config.form]

ValidationResult(success, entities, errors) ==
  [called |-> TRUE, success |-> success, entities |-> entities, errors |-> errors]

\* the loop of load_entities over the entries from index i on: the errors
\* collected and the entities normalised
RECURSIVE LoadLoop(_, _, _, _)
LoadLoop(items, i, entities, errors) ==
  IF i > Len(items) THEN [entities |-> entities, errors |-> errors]
  ELSE LET entity_errors == _validate_entity(i, items[i])
       IN IF entity_errors # <<>>
            THEN LoadLoop(items, i + 1, entities, errors \o entity_errors)
            ELSE LoadLoop(items, i + 1, entities @@ (i :> _normalize_entity(i, items[i])),
                          errors)

\* load_entities returning the valid entities next to the errors
load_entities_Partial(yaml) ==
  CASE yaml.kind = "missing" ->
         ValidationResult(FALSE, EmptyDict, <<LoaderErr(0, "File not found")>>)
    [] yaml.kind = "yaml_error" ->
         ValidationResult(FALSE, EmptyDict, <<LoaderErr(0, "YAML parse error")>>)
    [] yaml.kind = "read_error" ->
         ValidationResult(FALSE, EmptyDict, <<LoaderErr(0, "Error reading file")>>)
    [] yaml.kind = "empty" -> ValidationResult(TRUE, EmptyDict, <<>>)
    [] yaml.kind = "scalar_root" ->
         ValidationResult(FALSE, EmptyDict, <<LoaderErr(0, "Root of YAML must be a mapping")>>)
    [] OTHER ->
         LET loop == LoadLoop(yaml.items, 1, EmptyDict, <<>>)
         IN IF loop.errors # <<>> THEN ValidationResult(FALSE, loop.entities, loop.errors)
            ELSE ValidationResult(TRUE, loop.entities, <<>>)

load_entities(yaml) ==
  CASE yaml.kind = "missing" ->
         ValidationResult(FALSE, EmptyDict, <<LoaderErr(0, "File not found")>>)
    [] yaml.kind = "yaml_error" ->
         ValidationResult(FALSE, EmptyDict, <<LoaderErr(0, "YAML parse error")>>)
    [] yaml.kind = "read_error" ->
         ValidationResult(FALSE, EmptyDict, <<LoaderErr(0, "Error reading file")>>)
    [] yaml.kind = "empty" -> ValidationResult(TRUE, EmptyDict, <<>>)
    [] yaml.kind = "scalar_root" ->
         ValidationResult(FALSE, EmptyDict, <<LoaderErr(0, "Root of YAML must be a mapping")>>)
    [] OTHER ->
         LET loop == LoadLoop(yaml.items, 1, EmptyDict, <<>>)
         IN IF loop.errors # <<>> THEN ValidationResult(FALSE, EmptyDict, loop.errors)
            ELSE ValidationResult(TRUE, loop.entities, <<>>)

\* the files: unreadable ones, an empty one, a scalar root, and mappings of
\* up to MaxEntities entries
Files ==
  {[kind |-> k, items |-> <<>>] :
     k \in {"missing", "yaml_error", "read_error", "empty", "scalar_root"}}
    \cup {[kind |-> "mapping", items |-> q] :
            q \in UNION {[1..n -> RawConfigs] : n \in 0..MaxEntities}}

LoaderInit ==
  /\ SvcFixed /\ DbImported /\ ValidatorIdle /\ TokenImported
  /\ file \in Files /\ result = NoResult

LoadEntities ==
  /\ ~result.called
  /\ result' = load_entities(file)
  /\ UNCHANGED file
  /\ UNCHANGED NotLdr

LoaderNext == LoadEntities

LoaderSpec == LoaderInit /\ [][LoaderNext]_vars

(***************************************************************************)
(* _validate_field over form fields and payload values.                    *)
(***************************************************************************)
\* form fields: required or not, of a type with and without a check
ValidatedFields ==
  {[name |-> "email", label |-> "Email", type |-> t, required |-> r] :
     t \in {"text", "email", "number"}, r \in BOOLEAN}

\* what payload.get(field_name) finds: nothing, None, strings, integers
ValidatedValues ==
  {Absent, None, VStr(""), VStr("Bo"), VStr("bad"), VStr("a@b.c"), VStr("a.b@c"),
   VStr("a@b.c@d"), VStr("a@b"), VStr("a@."), VStr(".@"), VInt(0), VInt(1)}

ValidatorInit ==
  /\ SvcFixed /\ DbImported /\ LoaderIdle /\ TokenImported
  /\ vField \in ValidatedFields /\ vValue \in ValidatedValues /\ vError = NotValidated

\* value = payload.get(field_name); error_msg = _validate_field(field, value)
ValidateField ==
  /\ vError = NotValidated
  /\ vError' = _validate_field(vField, IF vValue = Absent THEN None ELSE vValue)
  /\ UNCHANGED <<vField, vValue>>
  /\ UNCHANGED NotVal

ValidatorNext == ValidateField

ValidatorSpec == ValidatorInit /\ [][ValidatorNext]_vars

(***************************************************************************)
(* Module db, access tokens of the client_credentials flow: one thread     *)
(* calling init_pool, get_connection and close_pool while the clock        *)
(* advances.  Client credentials are configured, and the host, client id   *)
(* and scope do not change, so the cache key always matches.               *)
(***************************************************************************)
MaxClock == 40

\* expires_in values the token endpoint may answer
ExpiresIns == {30, 70, 100}

\* seconds the clock may advance between two calls
Ticks == {1, 30}

\* ttl = max(60, int(expires_in * 0.9))
TokenTtl(expires_in) ==
  LET ninety == (expires_in * 9) \div 10
  IN IF ninety > 60 THEN ninety ELSE 60

\* _get_cached_access_token's test of the cache: _token_cache is set and
\* _token_cache["expires_at"] - 60 > now
CacheAccepts(cache, now) == cache.cached /\ cache.expires_at - 60 > now

\* get_connection's test: _token_cache and _token_cache["expires_at"] - 60 <= now
NeedsRefresh(cache, now) == cache.cached /\ cache.expires_at - 60 <= now

\* _get_cached_access_token at time now, the endpoint answering expires_in if
\* asked: the cache afterwards and whether a token was fetched
_get_cached_access_token(cache, now, expires_in) ==
  IF CacheAccepts(cache, now) THEN [cache |-> cache, fetched |-> FALSE]
  ELSE [cache |-> [cached |-> TRUE, expires_at |-> now + TokenTtl(expires_in)],
        fetched |-> TRUE]

\* the outcome of a call: cache, time of the last fetch, and the call record
TokDone(name, cache, fetches, reinit, examined) ==
  /\ _token_cache' = cache
  /\ fetchedAt' = IF fetches > 0 THEN clock ELSE fetchedAt
  /\ poolReady' = TRUE
  /\ tokCall' = [op |-> name, at |-> clock, fetches |-> fetches, reinit |-> reinit,
                 examined |-> examined]
  /\ UNCHANGED clock
  /\ UNCHANGED NotTok

\* init_pool(): nothing when initialised, else the token is taken from the
\* cache or fetched and the engine is created
TokInitPool ==
  \E expires_in \in ExpiresIns :
    \E g \in {_get_cached_access_token(_token_cache, clock, expires_in)} :
      IF poolReady THEN TokDone("init_pool", _token_cache, 0, FALSE, fetchedAt)
      ELSE TokDone("init_pool", g.cache, IF g.fetched THEN 1 ELSE 0, FALSE, fetchedAt)

\* get_connection(): init_pool() if not initialised; then, with a cached
\* token within 60 seconds of its expiry, close_pool() and init_pool()
TokGetConnection ==
  \E e1 \in ExpiresIns, e2 \in ExpiresIns :
    \E g1 \in {IF poolReady THEN [cache |-> _token_cache, fetched |-> FALSE]
               ELSE _get_cached_access_token(_token_cache, clock, e1)} :
      LET n1 == IF g1.fetched THEN 1 ELSE 0
          examined == IF g1.fetched THEN clock ELSE fetchedAt
      IN IF NeedsRefresh(g1.cache, clock)
           THEN \E g2 \in {_get_cached_access_token(g1.cache, clock, e2)} :
                  TokDone("get_connection", g2.cache, n1 + (IF g2.fetched THEN 1 ELSE 0),
                          TRUE, examined)
           ELSE TokDone("get_connection", g1.cache, n1, FALSE, examined)

\* close_pool(): the pool is reset, the token cache is kept
TokClosePool ==
  /\ poolReady
  /\ poolReady' = FALSE
  /\ tokCall' = [NoTokCall EXCEPT !.op = "close_pool", !.at = clock]
  /\ UNCHANGED <<clock, _token_cache, fetchedAt>>
  /\ UNCHANGED NotTok

\* time passes between two calls
Tick ==
  \E d \in Ticks :
    /\ clock + d <= MaxClock
    /\ clock' = clock + d
    /\ tokCall' = NoTokCall
    /\ UNCHANGED <<_token_cache, fetchedAt, poolReady>>
    /\ UNCHANGED NotTok

TokenInit == SvcFixed /\ DbImported /\ LoaderIdle /\ ValidatorIdle /\ TokenImported

TokenNext ==
  \/ TokInitPool
  \/ TokGetConnection
  \/ TokClosePool
  \/ Tick

TokenSpec == TokenInit /\ [][TokenNext]_vars

(***************************************************************************)
(* Properties.                                                             *)
(***************************************************************************)
ServiceOps == {"render_list", "render_detail", "render_form", "handle_save", "handle_action"}
RepoOps == {"fetch_list", "fetch_detail", "search_lookup", "save"}

\* the registry of the request holds the entity it names
Registered == req.registry = "loaded" /\ req.entity \in DOMAIN Entities

Count(q, e) == Cardinality({i \in 1..Len(q) : q[i] = e})
Has(q, e) == \E i \in 1..Len(q) : q[i] = e

\* connections held after the first n events of a log
Held(q, n) ==
  Cardinality({i \in 1..n : q[i].op = "acquire"}) - Cardinality({i \in 1..n : q[i].op = "release"})

\* the primary-key value a save request carries is truthy
TruthyPk(r) ==
  /\ "id" \in DOMAIN r.payload
  /\ ~InNoneEmptyZero(r.payload["id"])

\* the pool's exhaustion error and a statement timeout
Transient(exc) == exc \in {PoolTimeout, Exc("TimeoutError", "query timeout")}

\* the whitelist of the specification: primary key and form fields
FormWhitelist(entity) ==
  {entity.primary_key} \cup {f.name : f \in SeqRange(FormFields(entity))}

\* columns of the table whose stored value the request changed in some row
ChangedCols ==
  {c \in TableCols :
     \E i \in DOMAIN rows :
        IF i \in DOMAIN before THEN rows[i][c] # before[i][c] ELSE rows[i][c] # None}

\* C1: a repository save whose payload carries a truthy primary key that
\* matches no row fails with the not-found error and leaves the table as it
\* was; it never returns normally (payloads with only the primary key
\* included).  Stated for calls without an injected fault on a pool that has
\* a spare connection.
C1_MissingPkFailsNotFound ==
  (/\ phase = "done" /\ req.op = "save" /\ req.F = NoFault /\ poolCap >= 2
   /\ TruthyPk(req) /\ MatchingIds(before, req.payload["id"]) = {})
    => (ret.raised /\ ret.exc = NotFoundExc /\ rows = before)

\* C2: repository save persists and returns only keys of the whitelist
\* {primary_key} + form field names; a key that is only a list column is
\* neither written nor returned.
C2_OnlyFormWhitelistPersisted ==
  (phase = "done" /\ req.op = "save" /\ ~ret.raised)
    => /\ DOMAIN ret.val.rec \subseteq FormWhitelist(Entities[req.entity])
       /\ ChangedCols \subseteq FormWhitelist(Entities[req.entity])

\* C3: whenever the repository call or the action handler of a service
\* operation raises, the operation returns a RenderContext with ok = false and
\* an integer error status, and no exception escapes to the route layer.
C3_NoExceptionEscapes ==
  (phase = "done" /\ req.op \in ServiceOps /\ ret.raised)
    => (escaped = NoExc /\ ~ctx.ok /\ ctx.status \in 400..599)

C3_Witness ==
  /\ phase = "done" /\ req.op = "handle_action"
  /\ ret.raised /\ ret.exc = Exc("ValueError", "handler failed")
  /\ ~ctx.ok /\ ctx.status = 500

\* C4: in every service operation a transient failure (pool exhaustion or a
\* timeout) of the repository call or handler gives status 503, and a failure
\* that is neither transient nor not-found gives status 500.
C4_TransientIs503ElseIs500 ==
  (phase = "done" /\ req.op \in ServiceOps /\ ret.raised)
    => /\ Transient(ret.exc) => ctx.status = 503
       /\ (~Transient(ret.exc) /\ ret.exc # NotFoundExc) => ctx.status = 500

\* C5: the error text of a 500 or 503 context is generic: a failure of the
\* same class with any other detail message, classified to the same status,
\* yields the same text.
C5_GenericErrorText ==
  (phase = "done" /\ req.op \in ServiceOps /\ ret.raised /\ ctx.status \in {500, 503})
    => \A e \in AllExcs :
         LET other == _error_context(Entities[req.entity], ctx.mode,
                                     [cls |-> ret.exc.cls, msg |-> e.msg])
         IN other.status = ctx.status => other.error = ctx.error

\* the declared form fields of the request's entity that fail validation
FailingFields ==
  {f.name : f \in {g \in SeqRange(FormFields(Entities[req.entity])) :
                     /\ g.name # ""
                     /\ _validate_field(g, Get(req.payload, g.name)) # NoError}}

\* C6: when some declared form field fails validation, handle_save answers
\* 400 with an errors entry for exactly the failing fields, echoes the form
\* config and the payload, and makes no repository call: no connection is
\* acquired and the table is unchanged.
C6_ValidationRejects ==
  (/\ phase = "done" /\ req.op = "handle_save" /\ Registered
   /\ FailingFields # {})
    => /\ ~ctx.ok /\ ctx.status = 400
       /\ DOMAIN ctx.errors = FailingFields
       /\ ctx.form = FormOf(Entities[req.entity])
       /\ ctx.hasRecord /\ ctx.record = RetRec(req.payload)
       /\ calls = 0 /\ log = <<>> /\ rows = before /\ ~ret.raised

C6_Witness ==
  /\ phase = "done" /\ req.op = "handle_save" /\ req.entity = "customer"
  /\ ctx.status = 400 /\ DOMAIN ctx.errors = {"name", "email"}
  /\ "id" \in DOMAIN req.payload

\* C7: for a known entity and a payload that passes validation, handle_save
\* calls repository save once and answers 200 / mode "view" / the saved record
\* when save returns, 404 exactly when save failed with not-found, 503 for a
\* transient failure and 500 for any other failure.
C7_SaveOutcomes ==
  (/\ phase = "done" /\ req.op = "handle_save" /\ Registered
   /\ FailingFields = {})
    => /\ calls = 1
       /\ IF ~ret.raised
            THEN ctx.ok /\ ctx.status = 200 /\ ctx.mode = "view" /\ ctx.record = ret.val
          ELSE IF ret.exc = NotFoundExc THEN ctx.status = 404
          ELSE IF Transient(ret.exc) THEN ctx.status = 503
          ELSE ctx.status = 500

\* C8: every connection a request's repository calls acquired is released
\* exactly once, after its acquisition and as the last event on it, on every
\* path; none is left unreleased when control returns.
C8_ReleasedExactlyOnce ==
  /\ \A c \in {log[i].conn : i \in 1..Len(log)} :
       /\ Count(log, Ev("acquire", c)) = 1
       /\ Count(log, Ev("release", c)) = 1
       /\ \A i \in 1..Len(log) :
            log[i] = Ev("release", c)
              => /\ \E j \in 1..(i - 1) : log[j] = Ev("acquire", c)
                 /\ \A k \in (i + 1)..Len(log) : log[k].conn # c
  /\ Held(log, Len(log)) = 0

C8_Witness ==
  /\ phase = "done" /\ req.op = "save" /\ ret.raised
  /\ Has(log, Ev("acquire", 2)) /\ Has(log, Ev("rollback", 1))

\* C9: at every point of a repository call at most one pool connection is
\* held.
C9_AtMostOneConnection ==
  \A n \in 0..Len(log) : Held(log, n) <= 1

\* C10: in repository save a write is committed exactly when the call
\* succeeds; when the call raises after the connection was acquired, rollback
\* was invoked on it, and a failing rollback does not replace the exception.
C10_CommitIffSuccess ==
  (phase = "done" /\ req.op = "save" /\ Has(log, Ev("acquire", 1)))
    => /\ Has(log, Ev("execute", 1)) => (Has(log, Ev("commit", 1)) <=> ~ret.raised)
       /\ ret.raised => Has(log, Ev("rollback", 1))
       /\ (ret.raised /\ req.F.rb /\ req.F.at = "execute") => ret.exc = req.F.exc

\* the table and column names a repository request has interpolated into
\* SQL text: the table and the selected columns for a read, the table, the
\* primary key of an update and every written field name for a save
InterpolatedNames ==
  LET entity == Entities[req.entity]
      written == (DOMAIN req.payload) \cap _allowed_fields(entity)
  IN {entity.table}
       \cup (IF req.op = "save" THEN written ELSE SeqRange(_select_columns(entity)))

\* C11: a repository request one of whose interpolated table or column names
\* fails the identifier check raises before a connection is acquired and
\* before any SQL is executed.
C11_UnsafeIdentifierAbortsFirst ==
  (/\ phase = "done" /\ req.op \in RepoOps
   /\ \E n \in InterpolatedNames : ~_safe_identifier(n))
    => (ret.raised /\ log = <<>>)

\* C12: after a save that returned a record, fetch_detail of the returned
\* primary key returns a record in which every whitelisted field of the
\* payload has the saved value.
C12_SaveThenFetchDetail ==
  (phase = "done" /\ req.op = "save" /\ ~ret.raised /\ ~ret.val.isNone)
    => LET entity == Entities[req.entity]
           pk_name == entity.primary_key
           d == FetchDetail(entity, ret.val.rec[pk_name], rows, 0, poolCap, NoExc, NoExc)
       IN /\ ~d.raised /\ ~d.ret.isNone
          /\ \A k \in ((DOMAIN req.payload) \cap FormWhitelist(entity)) \ {pk_name} :
                k \in DOMAIN d.ret.rec /\ d.ret.rec[k] = req.payload[k]

\* the definitions an action list declares under a name
DeclaredIn(actions, action_name) == {a \in SeqRange(actions) : a.name = action_name}

\* C13: handle_action answers 404 for an unknown entity, else 404 for an
\* action declared in neither form.actions nor list.actions, else 501 when no
\* callable is registered under the name, and invokes no handler on these
\* paths; otherwise it invokes the handler once with (entity, payload or {}),
\* classifies a raised exception as 503 (transient) or 500, and answers 200
\* with the handler's return value; an action declared in both lists is
\* reported with its form.actions definition.
C13_ActionPrecedence ==
  (phase = "done" /\ req.op = "handle_action")
    => IF ~Registered
         THEN ~ctx.ok /\ ctx.status = 404 /\ calls = 0
       ELSE LET entity == Entities[req.entity]
                inForm == DeclaredIn(entity.form.actions, req.action)
                inList == DeclaredIn(entity.list.actions, req.action)
                arg == IF req.payload = None THEN EmptyDict ELSE req.payload
            IN IF inForm \cup inList = {}
                 THEN ~ctx.ok /\ ctx.status = 404 /\ calls = 0
               ELSE IF req.action \notin req.handlers.names
                 THEN ~ctx.ok /\ ctx.status = 501 /\ calls = 0
               ELSE /\ calls = 1
                    /\ IF req.handlers.exc # NoExc
                         THEN /\ ret.raised /\ ~ctx.ok
                              /\ ctx.status = IF Transient(req.handlers.exc) THEN 503 ELSE 500
                         ELSE /\ ctx.ok /\ ctx.status = 200
                              /\ ctx.result = HandlerReturn(req.handlers, entity, arg)
                              /\ ctx.action \in (IF inForm # {} THEN inForm ELSE inList)

C13_Witness ==
  /\ phase = "done" /\ req.op = "handle_action" /\ req.entity = "contact"
  /\ req.action = "calc_points" /\ req.payload = None /\ req.handlers.echo
  /\ ctx.status = 200 /\ ctx.action.label = "Calc Points" /\ ctx.result.n = 0

\* the page fetch_list serves: 1 for None and for every page <= 0
ServedPage(page) == IF page = None \/ page.n <= 0 THEN 1 ELSE page.n

\* the ids of the records a fetch_list request returned
ReturnedIds == [k \in 1..Len(ret.val.list) |-> ret.val.list[k]["id"].n]

\* the statement of C14 for an effective page size eps: the query has
\* LIMIT eps and OFFSET (page - 1) * eps, a page <= 0 gives the query of
\* page 1, one SELECT is executed, and the rows returned are that slice
PaginationHolds(eps) ==
  LET entity == Entities[req.entity]
      stmt == ListQuery(entity, req.page, req.page_size, req.sort)
      ordered == OrderIds(DOMAIN rows, rows, stmt.col, stmt.dir, entity.primary_key)
  IN /\ stmt.limit = eps
     /\ stmt.offset = (ServedPage(req.page) - 1) * eps
     /\ (req.page = None \/ req.page.n <= 0)
           => stmt = ListQuery(entity, VInt(1), req.page_size, req.sort)
     /\ Count(log, Ev("execute", 1)) = 1
     /\ ~ret.raised => ReturnedIds = Slice(ordered, eps, (ServedPage(req.page) - 1) * eps)

\* a fetch_list request that reached its SELECT
ListQueried == phase = "done" /\ req.op = "fetch_list" /\ Has(log, Ev("execute", 1))

\* C14 as stated: the effective page size is the explicit page_size argument
\* whenever one is given, else list.page_size, else 20; LIMIT is that size and
\* OFFSET is (page - 1) times it, with every page <= 0 (and None) served as
\* page 1; one SELECT is executed per call.
C14_PaginationAsStated ==
  ListQueried
    => PaginationHolds(IF req.page_size # None THEN req.page_size.n
                       ELSE ListPageSize(Entities[req.entity].list))

\* C14: the effective page size is the explicit page_size argument when it
\* is neither None nor 0, else list.page_size, else 20; LIMIT is that size and
\* OFFSET is (page - 1) times it, with every page <= 0 (and None) served as
\* page 1; one SELECT is executed per call.
C14_Pagination ==
  ListQueried
    => PaginationHolds(IF req.page_size # None /\ req.page_size.n # 0 THEN req.page_size.n
                       ELSE ListPageSize(Entities[req.entity].list))

C14_Witness ==
  /\ ListQueried /\ req.entity = "contact" /\ ~ret.raised
  /\ req.page = VInt(2) /\ req.page_size = None
  /\ Cardinality(DOMAIN rows) >= 2 /\ Len(ret.val.list) = 1

\* C15: a requested sort whose column (without a leading "-") is not a
\* selected column is served ordered by list.default_sort when that is a
\* selected column, else by the first selected column, ascending; a sort
\* naming a selected column is served by that column, descending with a
\* leading "-" and ascending without; the rows come back in that order.
C15_SortResolution ==
  (ListQueried /\ req.sort # "")
    => LET entity == Entities[req.entity]
           columns == _select_columns(entity)
           named == IF StartsWithDash(req.sort) THEN DropDash(req.sort) ELSE req.sort
           col == IF named \in SeqRange(columns) THEN named
                  ELSE IF entity.list.default_sort \in SeqRange(columns)
                    THEN entity.list.default_sort
                  ELSE columns[1]
           dir == IF named \in SeqRange(columns) /\ StartsWithDash(req.sort) THEN "DESC"
                  ELSE "ASC"
           stmt == ListQuery(entity, req.page, req.page_size, req.sort)
       IN /\ stmt.col = col /\ stmt.dir = dir
          /\ ~ret.raised
               => ReturnedIds = Slice(OrderIds(DOMAIN rows, rows, col, dir, entity.primary_key),
                                      stmt.limit, stmt.offset)

C15_Witness ==
  /\ ListQueried /\ req.entity = "customer" /\ req.sort = "-bogus" /\ ~ret.raised
  /\ req.page_size = None /\ ServedPage(req.page) = 1
  /\ Len(ret.val.list) = 2 /\ ReturnedIds = <<2, 1>>

\* C16: search_lookup returns at most limit rows, exactly the first limit
\* rows, in ascending order of the display column, of those whose display
\* value matches LIKE '%q%'; with an empty query no row is excluded by the
\* text match, and with limit 0 the result is empty.  The display column is
\* the second selected column, or the first when only one is selected.
C16_LookupMatchesAndLimits ==
  (phase = "done" /\ req.op = "search_lookup" /\ ~ret.raised)
    => LET entity == Entities[req.entity]
           columns == _select_columns(entity)
           display == IF Len(columns) >= 2 THEN columns[2] ELSE columns[1]
           value(i) == ColumnOf(rows, i, display, entity.primary_key)
           matching == {i \in DOMAIN rows : req.q = "" \/ Like(value(i), req.q)}
           ordered == OrderIds(matching, rows, display, "ASC", entity.primary_key)
       IN /\ Len(ret.val.list) <= req.limit
          /\ req.limit = 0 => ret.val.list = <<>>
          /\ ReturnedIds = Slice(ordered, req.limit, 0)
          /\ \A k \in 1..Len(ret.val.list) : DOMAIN ret.val.list[k] = {columns[1], display}

\* the primary key a detail, form or save request addresses: the pk argument,
\* or the payload's primary-key value
AddressedPk == IF req.op = "handle_save" THEN Get(req.payload, "id") ELSE req.pk

\* a request for one record by primary key whose repository call did not
\* fail for another reason than the record being absent: render_detail,
\* render_form with a pk, handle_save with a valid payload on the update path
AddressesRecord ==
  /\ phase = "done" /\ Registered
  /\ \/ req.op = "render_detail"
     \/ req.op = "render_form" /\ req.pk # None
     \/ req.op = "handle_save" /\ FailingFields = {} /\ TruthyPk(req)
        /\ req.payload["id"] # VStr("0")
  /\ calls = 1
  /\ ret.raised => ret.exc = NotFoundExc

\* C17: a request that addresses a record by a primary key matching no row
\* is answered ok = false, status 404 (with record None for detail and
\* form); one that addresses an existing record is answered ok = true,
\* status 200 with that record.
C17_AbsentRecordIs404 ==
  AddressesRecord
    => LET entity == Entities[req.entity]
           hit == MatchingIds(before, AddressedPk)
       IN IF hit = {}
            THEN /\ ~ctx.ok /\ ctx.status = 404
                 /\ req.op # "handle_save" => (ctx.hasRecord /\ ctx.record = RetNone)
          ELSE /\ ctx.ok /\ ctx.status = 200 /\ ctx.hasRecord
               /\ ctx.record = RetRec(RowDict(rows, CHOOSE i \in hit : TRUE,
                                              _select_columns(entity), entity.primary_key))

\* C18: a service operation asked for an entity name the registry does not
\* hold -- an unregistered name, or any name when the registry is empty or
\* None -- answers ok = false, status 404 and an "Unknown entity" message,
\* and calls neither the repository nor an action handler.
UnknownEntity ==
  /\ phase = "done" /\ req.op \in ServiceOps
  /\ ~Registered

C18_UnknownEntityIs404 ==
  UnknownEntity
    => /\ escaped = NoExc
       /\ ~ctx.ok /\ ctx.status = 404 /\ ctx.error = "Unknown entity"
       /\ calls = 0 /\ log = <<>> /\ ret = NoRet
       /\ rows = before

\* handle_action of a declared action with its handler registered, against a
\* registry that is None
C18_Witness ==
  /\ UnknownEntity
  /\ req.op = "handle_action" /\ req.registry = "none" /\ req.entity = "customer"
  /\ req.action = "calc_points" /\ "calc_points" \in req.handlers.names
  /\ ctx.status = 404

\* C19: init_pool is idempotent.  At no time has more than one engine been
\* created since the last reset by close_pool, however the init_pool calls of
\* the threads interleave; and when an init_pool call has returned and
\* get_engine is called after it with no close_pool in between, exactly one
\* engine has been created since that reset and get_engine returns it.
InitPoolThenGetEngine(t) ==
  pc[t] = "returned" /\ op[t] = "init_pool" /\ ~out[t].raised /\ out[t].fresh

C19_InitPoolIdempotent ==
  /\ Cardinality(made) <= 1
  /\ \A t \in Threads :
       InitPoolThenGetEngine(t) => out[t].engine # 0 /\ out[t].made = {out[t].engine}

\* two threads are back from init_pool between the same two close_pool calls,
\* after an earlier engine was closed: both hold engine 2
C19_Witness ==
  /\ \A t \in Threads : InitPoolThenGetEngine(t) /\ out[t].engine = 2
  /\ engines = 2

\* C20: when close_pool leaves its locked block the module is uninitialised
\* (engine None, session factory None, flag false), whether dispose() raised
\* or not and whether the pool was initialised or not; close_pool itself
\* never raises; and a get_connection that hands out a connection with no
\* close_pool since it looked at the pool took it from the one engine created
\* since the last reset.
Uninitialised == _engine = 0 /\ _SessionFactory = 0 /\ ~_initialized

C20_ClosePoolResets ==
  \A t \in Threads :
    /\ pc[t] = "close_exit" => Uninitialised
    /\ (pc[t] = "returned" /\ op[t] = "close_pool") => ~out[t].raised
    /\ (pc[t] = "returned" /\ op[t] = "get_connection" /\ ~out[t].raised /\ out[t].fresh)
         => out[t].engine # 0 /\ out[t].made = {out[t].engine}

\* one thread leaves a close_pool whose dispose() raised; the other, after an
\* earlier close_pool, has a connection from the re-initialised pool's engine
C20_Witness ==
  \E t, u \in Threads :
    /\ pc[t] = "close_exit" /\ op[t] = "close_pool" /\ out[t].disposeRaised /\ Uninitialised
    /\ pc[u] = "returned" /\ op[u] = "get_connection" /\ ~out[u].raised
    /\ out[u].fresh /\ out[u].engine = 2

\* C21: load_entities is all-or-nothing.  If an entry of the mapping fails
\* validation the result has success = false, no entities at all, and the
\* errors of every invalid entry; success = true means every entry is valid,
\* and then every entry is loaded under its key with that key as its name and
\* with the primary key it gives, or "id" when it gives none.
Invalid(items) == {i \in 1..Len(items) : _validate_entity(i, items[i]) # <<>>}

ErrorsOf(q) == {q[i] : i \in 1..Len(q)}

C21_LoadAllOrNothing ==
  result.called =>
    LET items == file.items
        bad == Invalid(items)
    IN /\ result.success => (bad = {} /\ file.kind \in {"mapping", "empty"})
       /\ ~result.success => (result.entities = EmptyDict /\ result.errors # <<>>)
       /\ (file.kind = "mapping" /\ bad # {})
            => /\ ~result.success
               /\ \A i \in bad : ErrorsOf(_validate_entity(i, items[i])) \subseteq
                                   ErrorsOf(result.errors)
               /\ \A e \in ErrorsOf(result.errors) : e.entity \in bad
       /\ (file.kind = "mapping" /\ bad = {})
            => /\ result.success
               /\ DOMAIN result.entities = 1..Len(items)
               /\ \A i \in 1..Len(items) :
                    /\ result.entities[i].name = i
                    /\ result.entities[i].primary_key =
                         (IF "primary_key" \in items[i].keys THEN items[i].primary_key
                          ELSE VStr("id"))

\* a file with a valid first entry and a second entry that lacks list and
\* form: nothing is loaded and both errors are reported
C21_Witness ==
  /\ result.called /\ file.kind = "mapping" /\ Len(file.items) = 2
  /\ Invalid(file.items) = {2}
  /\ ~result.success /\ result.entities = EmptyDict /\ Len(result.errors) = 2

\* C22: repository save chooses its path from the payload alone.  A payload
\* with a truthy primary key runs an UPDATE on save's connection that sets
\* every other whitelisted field of the payload in the row with that key, and
\* fails with not-found when no row has it; any other payload runs an INSERT
\* and a save that returns gives back the payload with a non-null primary key
\* of the inserted row.  Stated for calls without an injected fault, on a pool
\* with a spare connection, whose names pass the identifier check and are
\* columns of the table.
C22_SavePathFromPayload ==
  LET entity == Entities[req.entity]
      filtered == Restrict(req.payload, _allowed_fields(entity))
      others == (DOMAIN filtered) \ {"id"}
  IN (/\ phase = "done" /\ req.op = "save" /\ req.F = NoFault /\ poolCap >= 2
      /\ _safe_identifier(entity.table) /\ Compiles(filtered))
       => IF TruthyPk(req)
            THEN /\ Has(log, Ev("execute", 1))
                 /\ IF MatchingIds(before, req.payload["id"]) = {}
                      THEN ret.raised /\ ret.exc = NotFoundExc /\ rows = before
                      ELSE /\ ~ret.raised
                           /\ \A i \in MatchingIds(before, req.payload["id"]), k \in others :
                                rows[i][k] = filtered[k]
            ELSE ~ret.raised
                   => /\ ~ret.val.isNone
                      /\ Get(ret.val.rec, "id") = VInt(nextId - 1)
                      /\ (nextId - 1) \in (DOMAIN rows) \ (DOMAIN before)
                      /\ \A k \in others : rows[nextId - 1][k] = filtered[k]

\* C23: a required field is rejected exactly when its payload value is
\* missing, None or the empty string; a non-empty value of an email field is
\* accepted exactly when it contains '@' and has a '.' somewhere after the
\* '@' (after the last one when the value has several); an empty value of a
\* field that is not required is always accepted; fields of other types have
\* no further check.
IsEmpty(v) == v \in {Absent, None, VStr("")}

\* the characters of str(value) have an '@' with no '@' but with a '.' after it
DotAfterAt(v) ==
  LET cs == Chars(StrOf(v))
  IN \E i \in 1..Len(cs) :
        /\ cs[i] = "@"
        /\ \A j \in (i + 1)..Len(cs) : cs[j] # "@"
        /\ \E j \in (i + 1)..Len(cs) : cs[j] = "."

C23_FieldValidation ==
  vError # NotValidated =>
    /\ (vError.kind = "is required") <=> (vField.required /\ IsEmpty(vValue))
    /\ (~vField.required /\ IsEmpty(vValue)) => vError = NoError
    /\ (vField.type = "email" /\ ~IsEmpty(vValue)) => (vError = NoError <=> DotAfterAt(vValue))
    /\ (vField.type # "email" /\ ~IsEmpty(vValue)) => vError = NoError
    /\ vError # NoError => vError.label = vField.label

\* an email value whose only '.' is before the '@' was rejected
C23_Witness ==
  /\ vField.type = "email" /\ vValue = VStr("a.b@c")
  /\ vError = [label |-> "Email", kind |-> "must be a valid email address"]

\* C24: whenever repository save raises, and whenever handle_save answers
\* 404, 500 or 503, the stored rows are what they were before the call (a
\* failure after the UPDATE ran leaves no update behind).
C24_FailedSaveLeavesRows ==
  (/\ phase = "done"
   /\ \/ req.op = "save" /\ ret.raised
      \/ req.op = "handle_save" /\ ctx.status \in {404, 500, 503})
    => rows = before

\* C25: whenever handle_save answers ok = true with status 200, its record is
\* present (not None) and carries the primary key of a row of the table; this
\* includes update payloads that carry only the primary key.
C25_SavedRecordExists ==
  (phase = "done" /\ req.op = "handle_save" /\ ctx.ok /\ ctx.status = 200)
    => /\ ~ctx.record.isNone
       /\ "id" \in DOMAIN ctx.record.rec
       /\ MatchingIds(rows, ctx.record.rec["id"]) # {}

\* C26: for every payload that reaches the repository, the mode handle_save
\* computes ("edit" or "create") corresponds to the statement repository save
\* decides on (UPDATE or INSERT) for the payload it is handed, the primary-key
\* values None, "", 0 and "0" included; in particular the not-found error of
\* the UPDATE path is answered in mode "edit".
C26_SameInsertUpdateDecision ==
  (phase = "done" /\ req.op = "handle_save" /\ Registered /\ calls = 1)
    => LET entity == Entities[req.entity]
           handed == Restrict(HandedToSave(entity, req.payload), _allowed_fields(entity))
       IN /\ ServiceIsUpdate(entity, req.payload) <=> RepoIsUpdate(entity, handed)
          /\ (ret.raised /\ ret.exc = NotFoundExc) => ctx.mode = "edit"

\* C27: on a pool whose total capacity is one connection, with no other
\* request in flight and no fault, a repository save that updates an existing
\* row with at least one other field returns the saved record; it does not
\* fail on the pool while holding the only connection.
C27_UpdateCompletesOnPoolOfOne ==
  (/\ phase = "done" /\ req.op = "save" /\ req.F = NoFault /\ poolCap = 1
   /\ req.entity = "customer" /\ TruthyPk(req)
   /\ MatchingIds(before, req.payload["id"]) # {}
   /\ (DOMAIN req.payload) \cap TableCols # {})
    => /\ ~ret.raised /\ ~ret.val.isNone
       /\ ret.exc # PoolTimeout

\* C28: under every interleaving of threads calling get_connection,
\* close_pool and init_pool, a get_connection call never calls
\* raw_connection() on an engine that is None: it hands out a connection of an
\* engine or raises the pool's own error.
C28_NeverNoneEngine ==
  \A t \in Threads :
    (pc[t] = "returned" /\ op[t] = "get_connection")
      => /\ ~out[t].noneEngine
         /\ ~out[t].raised => out[t].engine # 0

\* C29: for every page and page_size argument, 0 and negative integers
\* included, the LIMIT of the SELECT that fetch_list sends is at least 1 and
\* its OFFSET at least 0.
C29_LimitAndOffsetInRange ==
  (/\ phase = "done" /\ req.op \in {"fetch_list", "render_list"} /\ Registered
   /\ Has(log, Ev("execute", 1)))
    => LET stmt == ListQuery(Entities[req.entity], req.page, req.page_size, req.sort)
       IN stmt.limit >= 1 /\ stmt.offset >= 0

\* C30: token refresh does not thrash.  For every expires_in of the token
\* endpoint, at the moment a token has been fetched and cached the cache is
\* accepted by _get_cached_access_token and get_connection sees no need to
\* refresh; a get_connection closes and re-initialises the pool only when the
\* clock has advanced since the token it examined was fetched, to within 60
\* seconds of that token's expiry.
C30_NoRefreshThrash ==
  /\ (_token_cache.cached /\ fetchedAt = clock)
       => (CacheAccepts(_token_cache, clock) /\ ~NeedsRefresh(_token_cache, clock))
  /\ tokCall.reinit => tokCall.examined < tokCall.at

====
